---------------------------- MODULE Spec2Model ----------------------------
(***************************************************************************)
(* OverPassAPI: the retrying Overpass client (OverpassClient.query), the   *)
(* polygon repository built on it (PolygonRepository.find_ways,            *)
(* find_relations, find_by_tags and the in-memory cache) and the element   *)
(* parser (_parse_element, Polygon.close).                                 *)
(*                                                                         *)
(* One call of a public operation is in progress at a time (the code is    *)
(* synchronous).  A call that reaches the network goes through the retry   *)
(* loop of query step by step: an attempt is started, the fetch completes  *)
(* (with a payload or with an exception), a backoff sleep starts and ends. *)
(* What the caller of query does with the result (_query_and_parse, the    *)
(* tail of find_relations) runs in the step in which query ends.           *)
(***************************************************************************)
EXTENDS Integers, Sequences, FiniteSets, TLC

\* ------------------------------------------------------------------ bounds
MaxRetries == 3      \* max_retries ranges over 0..MaxRetries
MaxElems == 2        \* a response carries at most MaxElems elements
MaxNodes == 4        \* a geometry passed to _parse_element alone has at most MaxNodes nodes

\* --------------------------------------------------------------- constants
DEFAULT_TIMEOUT == 30
DEFAULT_URL == "https://overpass-api.de/api/interpreter"

VARIABLES
    config,     \* OverpassClient.config: max_retries, retry_delay, timeout, url
    cache,      \* PolygonRepository._cache: osm_id -> polygon, NoPolygon when absent
    call,       \* the call in progress, or the last one: op, bbox, tags, query
    pc,         \* position of the call: idle, attempting, fetching, sleeping
    attempt,    \* the loop variable of query
    inflight,   \* fetches issued and not yet completed
    log,        \* fetches, failures and sleeps of the current call, in order
    qresult,    \* how client.query ended in the current call
    outcome,    \* how the call ended, as seen by its caller
    last_exc,   \* the exception raised by the attempt that failed last
    cache0,     \* the cache when the current call started
    response,   \* the response requests.get returned last in the current call
    heap        \* the Polygon objects callers hold references to: address -> fields

vars == <<config, cache, call, pc, attempt, inflight, log, qresult, outcome, last_exc, cache0,
          response, heap>>

\* ------------------------------------------------------------ value spaces
Ids == {1, 2}

\* requests.exceptions.RequestException and its subclasses are what query
\* catches; JSONDecodeError is requests' own (a RequestException), ValueError
\* stands for any exception of another class raised during an attempt.
RequestExceptions == {"ConnectionError", "Timeout", "HTTPError", "JSONDecodeError"}
ExcClasses == RequestExceptions \cup {"ValueError"}

\* Mutant of IsRequestException: the except clause catches every exception
IsRequestExceptionAny(cls) == TRUE

\* except requests.exceptions.RequestException
IsRequestException(cls) == cls \in RequestExceptions

NoExc == [cls |-> "none", src |-> "none", at |-> -1]
FetchExc(cls, n) == [cls |-> cls, src |-> "fetch", at |-> n]

\* ------------------------------------------------------------- polygon.py
WAY == "way"
RELATION == "relation"
NODE == "node"

EmptyDict == <<>>

Polygon(osm_id, polygon_type, coordinates, tags) ==
    [osm_id |-> osm_id, polygon_type |-> polygon_type,
     coordinates |-> coordinates, tags |-> tags, properties |-> EmptyDict]

\* Polygon.is_closed, on the coordinates
is_closed(coordinates) ==
    IF Len(coordinates) < 3
    THEN FALSE
    ELSE coordinates[1] = coordinates[Len(coordinates)]

\* Polygon.close: the coordinates after the call
close(coordinates) ==
    IF ~is_closed(coordinates)
    THEN Append(coordinates, coordinates[1])
    ELSE coordinates

\* Polygon.is_valid, on the coordinates
Polygon_is_valid(coordinates) ==
    IF Len(coordinates) < 3
    THEN FALSE
    ELSE is_closed(coordinates)

\* -------------------------------------------------------- bounding_box.py
BoundingBox(lat_min, lon_min, lat_max, lon_max) ==
    [lat_min |-> lat_min, lon_min |-> lon_min, lat_max |-> lat_max, lon_max |-> lon_max]

\* Mutant of is_valid: only the ranges are checked
is_valid_ranges_only(bbox) ==
    /\ -90 <= bbox.lat_min /\ bbox.lat_min <= 90
    /\ -90 <= bbox.lat_max /\ bbox.lat_max <= 90
    /\ -180 <= bbox.lon_min /\ bbox.lon_min <= 180
    /\ -180 <= bbox.lon_max /\ bbox.lon_max <= 180

\* Mutant of is_valid: the ends of the ranges are excluded
is_valid_open_ranges(bbox) ==
    IF bbox.lat_min >= bbox.lat_max THEN FALSE
    ELSE IF bbox.lon_min >= bbox.lon_max THEN FALSE
    ELSE IF ~(-90 < bbox.lat_min /\ bbox.lat_min < 90) THEN FALSE
    ELSE IF ~(-90 < bbox.lat_max /\ bbox.lat_max < 90) THEN FALSE
    ELSE IF ~(-180 < bbox.lon_min /\ bbox.lon_min < 180) THEN FALSE
    ELSE IF ~(-180 < bbox.lon_max /\ bbox.lon_max < 180) THEN FALSE
    ELSE TRUE

\* BoundingBox.is_valid
is_valid(bbox) ==
    IF bbox.lat_min >= bbox.lat_max THEN FALSE
    ELSE IF bbox.lon_min >= bbox.lon_max THEN FALSE
    ELSE IF ~(-90 <= bbox.lat_min /\ bbox.lat_min <= 90) THEN FALSE
    ELSE IF ~(-90 <= bbox.lat_max /\ bbox.lat_max <= 90) THEN FALSE
    ELSE IF ~(-180 <= bbox.lon_min /\ bbox.lon_min <= 180) THEN FALSE
    ELSE IF ~(-180 <= bbox.lon_max /\ bbox.lon_max <= 180) THEN FALSE
    ELSE TRUE

\* BoundingBox.to_overpass: the four numbers in the order of the format string
to_overpass(bbox) == <<bbox.lat_min, bbox.lon_min, bbox.lat_max, bbox.lon_max>>

\* The boxes the calls are made with: a well-formed one, one with the
\* latitudes reversed and one with a longitude out of range
BBoxes ==
    { BoundingBox(48, 2, 49, 3),
      BoundingBox(49, 2, 48, 3),
      BoundingBox(48, 2, 49, 181) }

\* ------------------------------------------------- the remote's responses
\* A geometry node {"lat": .., "lon": ..}; has_lon = FALSE is a node without
\* the "lon" key.
Node(lat, lon) == [lat |-> lat, lon |-> lon, has_lon |-> TRUE]
BadNode(lat) == [lat |-> lat, lon |-> 0, has_lon |-> FALSE]

NA == Node(10, 20)
NB == Node(11, 21)
NC == Node(12, 22)

SomeTags == [building |-> "yes"]

\* One element of data["elements"].  is_dict = FALSE is an element that is
\* not a JSON object (element.get raises); type "none" is a missing "type".
Element(type, id, has_geometry, geometry, has_tags, tags) ==
    [is_dict |-> TRUE, type |-> type, id |-> id,
     has_geometry |-> has_geometry, geometry |-> geometry,
     has_tags |-> has_tags, tags |-> tags]

NotADict ==
    [is_dict |-> FALSE, type |-> "none", id |-> 0,
     has_geometry |-> FALSE, geometry |-> <<>>,
     has_tags |-> FALSE, tags |-> EmptyDict]

\* Ways that parse (two of them under the same id), a way without geometry,
\* a way whose geometry has a node without "lon"
WayElements ==
    { Element(WAY, 1, TRUE, <<NA, NB, NC>>, TRUE, SomeTags),
      Element(WAY, 1, TRUE, <<NB, NA>>, FALSE, EmptyDict),
      Element(WAY, 2, TRUE, <<NA>>, TRUE, SomeTags),
      Element(WAY, 2, FALSE, <<>>, TRUE, SomeTags),
      Element(WAY, 1, TRUE, <<NA, BadNode(11)>>, TRUE, SomeTags) }

Elements ==
    WayElements \cup { Element(RELATION, 2, TRUE, <<NA, NB, NC>>, TRUE, SomeTags),
                       NotADict }

SeqsUpTo(S, n) == UNION { [1..k -> S] : k \in 0..n }

\* The decoded body of a response: kind "empty" is {}, "no_elements" a
\* non-empty object without the key "elements", "elements" an object with a
\* list under it, "bad_elements" an object whose "elements" is not iterable.
Payload(kind, elements) == [kind |-> kind, elements |-> elements]
NoPayload == Payload("none", <<>>)

Payloads ==
    { Payload("empty", <<>>), Payload("no_elements", <<>>), Payload("bad_elements", <<>>) }
    \cup { Payload("elements", es) : es \in SeqsUpTo(Elements, MaxElems) }

\* ------------------------------------------------- polygon_repository.py
\* A dict of tags passed by the caller, as the sequence of its items in
\* iteration order; given = FALSE is tags=None.
Tags(items) == [given |-> TRUE, items |-> items]
NoTags == [given |-> FALSE, items |-> <<>>]

TagArgs == { NoTags, Tags(<< <<"landuse", "industrial">> >>) }

\* _build_tag_conditions: one clause ["key"="value"] per item, in order, as
\* the sequence of the pieces of text it concatenates
RECURSIVE _build_tag_conditions(_)
_build_tag_conditions(items) ==
    IF items = <<>>
    THEN <<>>
    ELSE <<"[\"", items[1][1], "\"=\"", items[1][2], "\"]">>
         \o _build_tag_conditions(Tail(items))

\* The query text: the bbox clause, the statement (way or relation, with its
\* tag conditions) and the out directive
QueryText(bbox_clause, statement, conditions, out) ==
    [bbox |-> bbox_clause, statement |-> statement, conditions |-> conditions, out |-> out]

NoBBox == BoundingBox(0, 0, 0, 0)

\* The query texts passed to OverpassClient.query by a direct caller
RawQueries == { QueryText(<<0, 0, 1, 1>>, "way", <<>>, "out") }

\* Mutant of save: the item is stored under the number of entries it makes
save_under_count(c, item) ==
    [k \in DOMAIN c \cup {Cardinality(DOMAIN c) + 1} |->
        IF k = Cardinality(DOMAIN c) + 1 THEN item ELSE c[k]]

\* save, on the cache: the cache after self._cache[item.osm_id] = item
save(c, item) ==
    [k \in DOMAIN c \cup {item.osm_id} |-> IF k = item.osm_id THEN item ELSE c[k]]

\* find_by_id, on the cache; None is absent
None == [osm_id |-> 0, polygon_type |-> "none", coordinates |-> <<>>,
         tags |-> EmptyDict, properties |-> EmptyDict]

find_by_id(c, item_id) == IF item_id \in DOMAIN c THEN c[item_id] ELSE None

\* Mutant of delete: the result is True also when the id was absent
delete_always_true(c, item_id) ==
    [result |-> TRUE, cache |-> [k \in DOMAIN c \ {item_id} |-> c[k]]]

\* delete, on the cache: what it returns and the cache after it
delete(c, item_id) ==
    IF item_id \in DOMAIN c
    THEN [result |-> TRUE, cache |-> [k \in DOMAIN c \ {item_id} |-> c[k]]]
    ELSE [result |-> FALSE, cache |-> c]

\* Mutant of clear_cache: nothing is removed
clear_cache_keeps_entries(c) == c

\* clear_cache, on the cache: self._cache.clear()
clear_cache(c) == <<>>

\* get_cache_size, on the cache: len(self._cache)
get_cache_size(c) == Cardinality(DOMAIN c)

\* The coordinates built by the loop of _parse_element: [lon, lat] per node
RECURSIVE Coordinates(_)
Coordinates(geometry) ==
    IF geometry = <<>>
    THEN <<>>
    ELSE << <<geometry[1].lon, geometry[1].lat>> >> \o Coordinates(Tail(geometry))

\* Mutant of _parse_element: an element without coordinates gives a polygon
\* without coordinates
_parse_element_keeps_empty(element, polygon_type) ==
    LET tags == IF element.has_tags THEN element.tags ELSE EmptyDict
        raised == element.has_geometry
                  /\ \E i \in 1..Len(element.geometry) : ~element.geometry[i].has_lon
        coordinates == IF element.has_geometry /\ ~raised
                       THEN Coordinates(element.geometry)
                       ELSE <<>>
    IN  IF raised
        THEN [ok |-> FALSE, polygon |-> None]
        ELSE [ok |-> TRUE,
              polygon |-> Polygon(element.id, polygon_type,
                                  IF polygon_type = WAY /\ coordinates # <<>>
                                  THEN close(coordinates)
                                  ELSE coordinates,
                                  tags)]

\* Mutant of _parse_element: the polygon is closed whatever its kind
_parse_element_closes_every_kind(element, polygon_type) ==
    LET tags == IF element.has_tags THEN element.tags ELSE EmptyDict
        raised == element.has_geometry
                  /\ \E i \in 1..Len(element.geometry) : ~element.geometry[i].has_lon
        coordinates == IF element.has_geometry /\ ~raised
                       THEN Coordinates(element.geometry)
                       ELSE <<>>
    IN  IF raised \/ coordinates = <<>>
        THEN [ok |-> FALSE, polygon |-> None]
        ELSE [ok |-> TRUE,
              polygon |-> Polygon(element.id, polygon_type, close(coordinates), tags)]

\* _parse_element: ok = FALSE is the None it returns when the element has no
\* coordinates or when building the polygon raised
_parse_element(element, polygon_type) ==
    LET tags == IF element.has_tags THEN element.tags ELSE EmptyDict
        raised == element.has_geometry
                  /\ \E i \in 1..Len(element.geometry) : ~element.geometry[i].has_lon
        coordinates == IF element.has_geometry /\ ~raised
                       THEN Coordinates(element.geometry)
                       ELSE <<>>
    IN  IF raised \/ coordinates = <<>>
        THEN [ok |-> FALSE, polygon |-> None]
        ELSE [ok |-> TRUE,
              polygon |-> Polygon(element.id, polygon_type,
                                  IF polygon_type = WAY THEN close(coordinates)
                                  ELSE coordinates,
                                  tags)]

\* Mutant of ParseLoop: the polygons are collected but never saved
RECURSIVE ParseLoopWithoutSave(_, _, _, _, _)
ParseLoopWithoutSave(elements, i, polygon_type, polygons, c) ==
    IF i > Len(elements)
    THEN [polygons |-> polygons, cache |-> c, raised |-> FALSE]
    ELSE LET element == elements[i] IN
         IF ~element.is_dict
         THEN [polygons |-> polygons, cache |-> c, raised |-> TRUE]
         ELSE IF element.type = polygon_type
         THEN LET parsed == _parse_element(element, polygon_type) IN
              IF parsed.ok
              THEN ParseLoopWithoutSave(elements, i + 1, polygon_type,
                                        Append(polygons, parsed.polygon), c)
              ELSE ParseLoopWithoutSave(elements, i + 1, polygon_type, polygons, c)
         ELSE ParseLoopWithoutSave(elements, i + 1, polygon_type, polygons, c)

\* Mutant of ParseLoop: every element is parsed, whatever its type
RECURSIVE ParseLoopAnyType(_, _, _, _, _)
ParseLoopAnyType(elements, i, polygon_type, polygons, c) ==
    IF i > Len(elements)
    THEN [polygons |-> polygons, cache |-> c, raised |-> FALSE]
    ELSE LET element == elements[i] IN
         IF ~element.is_dict
         THEN [polygons |-> polygons, cache |-> c, raised |-> TRUE]
         ELSE LET parsed == _parse_element(element, polygon_type) IN
              IF parsed.ok
              THEN ParseLoopAnyType(elements, i + 1, polygon_type,
                                    Append(polygons, parsed.polygon), save(c, parsed.polygon))
              ELSE ParseLoopAnyType(elements, i + 1, polygon_type, polygons, c)

\* Mutant of ParseLoop: the loop stops at the first element that fails to parse
RECURSIVE ParseLoopStopsOnFailure(_, _, _, _, _)
ParseLoopStopsOnFailure(elements, i, polygon_type, polygons, c) ==
    IF i > Len(elements)
    THEN [polygons |-> polygons, cache |-> c, raised |-> FALSE]
    ELSE LET element == elements[i] IN
         IF ~element.is_dict
         THEN [polygons |-> polygons, cache |-> c, raised |-> TRUE]
         ELSE IF element.type = polygon_type
         THEN LET parsed == _parse_element(element, polygon_type) IN
              IF parsed.ok
              THEN ParseLoopStopsOnFailure(elements, i + 1, polygon_type,
                                           Append(polygons, parsed.polygon),
                                           save(c, parsed.polygon))
              ELSE [polygons |-> polygons, cache |-> c, raised |-> FALSE]
         ELSE ParseLoopStopsOnFailure(elements, i + 1, polygon_type, polygons, c)

\* The for loop of _query_and_parse from element i on: the polygons collected,
\* the cache, and whether an exception reached the top level of the loop
RECURSIVE ParseLoop(_, _, _, _, _)
ParseLoop(elements, i, polygon_type, polygons, c) ==
    IF i > Len(elements)
    THEN [polygons |-> polygons, cache |-> c, raised |-> FALSE]
    ELSE LET element == elements[i] IN
         IF ~element.is_dict
         THEN [polygons |-> polygons, cache |-> c, raised |-> TRUE]
         ELSE IF element.type = polygon_type
         THEN LET parsed == _parse_element(element, polygon_type) IN
              IF parsed.ok
              THEN ParseLoop(elements, i + 1, polygon_type,
                             Append(polygons, parsed.polygon), save(c, parsed.polygon))
              ELSE ParseLoop(elements, i + 1, polygon_type, polygons, c)
         ELSE ParseLoop(elements, i + 1, polygon_type, polygons, c)

\* How client.query ended: a payload returned or an exception raised
QReturn(payload) == [kind |-> "return", payload |-> payload, exc |-> NoExc]
QRaise(exc) == [kind |-> "raise", payload |-> NoPayload, exc |-> exc]
QNone == [kind |-> "none", payload |-> NoPayload, exc |-> NoExc]

\* How a call of a public operation ended, as its caller sees it: data is
\* the dict query returns, polygons the list a find_* operation returns
Return(data, polygons) == [kind |-> "return", data |-> data, polygons |-> polygons, exc |-> NoExc]
Raise(exc) == [kind |-> "raise", data |-> NoPayload, polygons |-> <<>>, exc |-> exc]
Pending == [kind |-> "none", data |-> NoPayload, polygons |-> <<>>, exc |-> NoExc]

\* A call that returns one value ended: save and find_by_id return a polygon
\* (None when absent), delete and is_available a bool
ReturnValue(v) ==
    [kind |-> "value", value |-> v, data |-> NoPayload, polygons |-> <<>>, exc |-> NoExc]

\* Mutant of _query_and_parse: the cache is reset when the call fails
_query_and_parse_resets_cache(qres, polygon_type, c) ==
    IF qres.kind = "raise"
    THEN [outcome |-> Return(NoPayload, <<>>), cache |-> <<>>]
    ELSE IF qres.payload.kind \in {"empty", "no_elements", "bad_elements"}
    THEN [outcome |-> Return(NoPayload, <<>>), cache |-> c]
    ELSE LET r == ParseLoop(qres.payload.elements, 1, polygon_type, <<>>, c) IN
         IF r.raised
         THEN [outcome |-> Return(NoPayload, <<>>), cache |-> <<>>]
         ELSE [outcome |-> Return(NoPayload, r.polygons), cache |-> r.cache]

\* Mutant of _query_and_parse: no try/except around client.query, an
\* exception of query leaves _query_and_parse
_query_and_parse_unguarded(qres, polygon_type, c) ==
    IF qres.kind = "raise"
    THEN [outcome |-> Raise(qres.exc), cache |-> c]
    ELSE IF qres.payload.kind \in {"empty", "no_elements", "bad_elements"}
    THEN [outcome |-> Return(NoPayload, <<>>), cache |-> c]
    ELSE LET r == ParseLoop(qres.payload.elements, 1, polygon_type, <<>>, c) IN
         [outcome |-> Return(NoPayload, IF r.raised THEN <<>> ELSE r.polygons),
          cache |-> r.cache]

\* _query_and_parse after client.query ended with qres: what it returns (it
\* never raises: except Exception) and the cache it leaves
_query_and_parse(qres, polygon_type, c) ==
    IF qres.kind = "raise"
    THEN [outcome |-> Return(NoPayload, <<>>), cache |-> c]
    ELSE IF qres.payload.kind \in {"empty", "no_elements"}
    THEN [outcome |-> Return(NoPayload, <<>>), cache |-> c]
    ELSE IF qres.payload.kind = "bad_elements"
    THEN [outcome |-> Return(NoPayload, <<>>), cache |-> c]
    ELSE LET r == ParseLoop(qres.payload.elements, 1, polygon_type, <<>>, c) IN
         IF r.raised
         THEN [outcome |-> Return(NoPayload, <<>>), cache |-> r.cache]
         ELSE [outcome |-> Return(NoPayload, r.polygons), cache |-> r.cache]

\* ------------------------------------------------------ overpass_client.py
\* OverpassConfig, as the client is constructed with it: every max_retries
\* with the default timeout and a delay of 1, and three attempts with the
\* other delays and another timeout
Configs ==
    [max_retries : 0..MaxRetries, retry_delay : {1},
     timeout : {DEFAULT_TIMEOUT}, url : {DEFAULT_URL}]
    \cup [max_retries : {3}, retry_delay : {3},
          timeout : {10}, url : {DEFAULT_URL}]

\* 2 ** n
RECURSIVE Pow2(_)
Pow2(n) == IF n <= 0 THEN 1 ELSE 2 * Pow2(n - 1)

\* Mutant of wait_time: 2 * attempt for 2 ** attempt
wait_time_linear(retry_delay, n) == retry_delay * (2 * n)

\* wait_time = self.config.retry_delay * (2 ** attempt)
wait_time(retry_delay, n) == retry_delay * Pow2(n)

\* Mutant of RetriesLeft: attempt < max_retries
RetriesLeftOffByOne(n, max_retries) == n < max_retries

\* attempt < self.config.max_retries - 1: a caught failure is retried
RetriesLeft(n, max_retries) == n < max_retries - 1

\* What requests.get hands back when it does not raise: the status code and a
\* body that response.json() decodes to a payload, or fails to decode
Response(status_code, decodable, payload) ==
    [status_code |-> status_code, decodable |-> decodable, payload |-> payload]
NoResponse == Response(0, FALSE, NoPayload)

\* The status codes of the responses: success ones beside 200, one that is
\* neither a success nor an error, a client error and a server error
StatusCodes == {200, 204, 304, 404, 503}

\* The bodies paired with a status other than 200: one that does not decode,
\* {} and one batch of a single way
Responses ==
    { Response(200, TRUE, p) : p \in Payloads }
    \cup { Response(st, b.decodable, b.payload) :
             st \in {200, 204, 304},
             b \in { Response(0, FALSE, NoPayload),
                     Response(0, TRUE, Payload("empty", <<>>)),
                     Response(0, TRUE, Payload("elements",
                        <<Element(WAY, 1, TRUE, <<NA, NB, NC>>, TRUE, SomeTags)>>)) } }
    \cup { Response(st, FALSE, NoPayload) : st \in {404, 503} }

\* Mutant of raise_for_status: every status outside 200..299 raises
raise_for_status_non_2xx(status_code) == ~(200 <= status_code /\ status_code < 300)

\* response.raise_for_status() raises HTTPError: requests does so for the
\* client errors 400..499 and the server errors 500..599
raise_for_status(status_code) == 400 <= status_code /\ status_code < 600

\* The events of one call, in order
NoRequest == [url |-> "", data |-> QueryText(<<>>, "", <<>>, ""), timeout |-> 0]
Request(url, data, timeout) == [url |-> url, data |-> data, timeout |-> timeout]
\* fetch: requests.get is issued for attempt n with request req; ok: attempt
\* n gave the decoded payload; fail: attempt n raised (transport: an exception
\* of the class query catches); sleep: time.sleep(d) is called after attempt n
Event(ev, n, d, transport, payload, req) ==
    [ev |-> ev, n |-> n, d |-> d, transport |-> transport, payload |-> payload, req |-> req]
FetchEvent(n, req) == Event("fetch", n, 0, FALSE, NoPayload, req)
OkEvent(n, payload) == Event("ok", n, 0, FALSE, payload, NoRequest)
FailEvent(n, transport) == Event("fail", n, 0, transport, NoPayload, NoRequest)
SleepEvent(n, d) == Event("sleep", n, d, FALSE, NoPayload, NoRequest)

Call(op, bbox, tags, q) == [op |-> op, bbox |-> bbox, tags |-> tags, query |-> q]
NoCall == Call("none", NoBBox, NoTags, QueryText(<<>>, "", <<>>, ""))

InvalidBBox == [cls |-> "ValueError", src |-> "bbox", at |-> -1]

\* Mutant of Continue: find_relations catches the exception of query and
\* returns an empty list, as _query_and_parse does
ContinueSwallowing(op, qres, c) ==
    CASE op = "query" ->
           [outcome |-> IF qres.kind = "raise" THEN Raise(qres.exc)
                        ELSE Return(qres.payload, <<>>),
            cache |-> c]
      [] op \in {"find_ways", "find_by_tags"} -> _query_and_parse(qres, WAY, c)
      [] op = "find_relations" -> [outcome |-> Return(NoPayload, <<>>), cache |-> c]

\* Mutant of Continue: find_relations parses the relations of the response
ContinueParsingRelations(op, qres, c) ==
    CASE op = "query" ->
           [outcome |-> IF qres.kind = "raise" THEN Raise(qres.exc)
                        ELSE Return(qres.payload, <<>>),
            cache |-> c]
      [] op \in {"find_ways", "find_by_tags"} -> _query_and_parse(qres, WAY, c)
      [] op = "find_relations" ->
           IF qres.kind = "raise"
           THEN [outcome |-> Raise(qres.exc), cache |-> c]
           ELSE _query_and_parse(qres, RELATION, c)

\* What the caller of client.query does when query ends with qres: the
\* rest of the operation op, run on cache c
Continue(op, qres, c) ==
    CASE op = "query" ->
           [outcome |-> IF qres.kind = "raise" THEN Raise(qres.exc)
                        ELSE Return(qres.payload, <<>>),
            cache |-> c]
      [] op \in {"find_ways", "find_by_tags"} -> _query_and_parse(qres, WAY, c)
      [] op = "find_relations" ->
           [outcome |-> IF qres.kind = "raise" THEN Raise(qres.exc)
                        ELSE Return(NoPayload, <<>>),
            cache |-> c]

\* query ends with qres and control is back in its caller, which finishes
QueryEnds(op, qres) ==
    LET r == Continue(op, qres, cache) IN
    /\ qresult' = qres
    /\ outcome' = r.outcome
    /\ cache' = r.cache
    /\ pc' = "idle"

\* A public operation is called: the bookkeeping of a new call
Begin(c) ==
    /\ pc = "idle"
    /\ call' = c
    /\ cache0' = cache
    /\ log' = <<>>
    /\ attempt' = 0
    /\ last_exc' = NoExc
    /\ response' = NoResponse
    /\ UNCHANGED <<config, inflight, heap>>

\* Entry of OverpassClient.query: the for loop over range(max_retries); with
\* nothing to iterate over, the final "return {}"
EnterQuery(op) ==
    IF config.max_retries >= 1
    THEN /\ pc' = "attempting"
         /\ qresult' = QNone
         /\ outcome' = Pending
         /\ UNCHANGED cache
    ELSE QueryEnds(op, QReturn(Payload("empty", <<>>)))

\* The bbox check that opens find_ways and find_relations
RejectBBox ==
    /\ pc' = "idle"
    /\ qresult' = QNone
    /\ outcome' = Raise(InvalidBBox)
    /\ UNCHANGED cache

\* client.query(overpass_ql), called directly
query(overpass_ql) ==
    /\ Begin(Call("query", NoBBox, NoTags, overpass_ql))
    /\ EnterQuery("query")

WayQuery(bbox, tags) ==
    QueryText(to_overpass(bbox), "way",
              _build_tag_conditions(IF tags.given THEN tags.items
                                    ELSE << <<"building", "yes">> >>),
              "out geom")

RelationQuery(bbox, tags) ==
    QueryText(to_overpass(bbox), "relation",
              _build_tag_conditions(IF tags.given THEN tags.items
                                    ELSE << <<"boundary", "administrative">> >>),
              "out count")

find_ways(bbox, tags) ==
    /\ Begin(Call("find_ways", bbox, tags, WayQuery(bbox, tags)))
    /\ IF ~is_valid(bbox) THEN RejectBBox ELSE EnterQuery("find_ways")

find_relations(bbox, tags) ==
    /\ Begin(Call("find_relations", bbox, tags, RelationQuery(bbox, tags)))
    /\ IF ~is_valid(bbox) THEN RejectBBox ELSE EnterQuery("find_relations")

\* Mutant of find_by_tags: the tags are not passed on to find_ways
find_by_tags_drops_tags(bbox, tags) ==
    /\ Begin(Call("find_by_tags", bbox, tags, WayQuery(bbox, NoTags)))
    /\ IF ~is_valid(bbox) THEN RejectBBox ELSE EnterQuery("find_by_tags")

\* find_by_tags: return self.find_ways(bbox, tags)
find_by_tags(bbox, tags) ==
    /\ Begin(Call("find_by_tags", bbox, tags, WayQuery(bbox, tags)))
    /\ IF ~is_valid(bbox) THEN RejectBBox ELSE EnterQuery("find_by_tags")

\* Mutant of CanStartAttempt: the next attempt does not wait for the sleep
CanStartAttemptEarly == pc \in {"attempting", "sleeping"}

\* The loop body starts: requests.get is issued and blocks
CanStartAttempt == pc = "attempting"

\* Mutant of StartAttempt: a retry is sent with a longer timeout
StartAttemptLongerTimeout ==
    /\ CanStartAttempt
    /\ pc' = "fetching"
    /\ inflight' = inflight + 1
    /\ log' = Append(log, FetchEvent(attempt, Request(config.url, call.query,
                                                     config.timeout * (attempt + 1))))
    /\ last_exc' = NoExc
    /\ response' = NoResponse
    /\ UNCHANGED <<config, cache, call, attempt, qresult, outcome, cache0, heap>>

\* query, lines 48-52: requests.get(url, params={"data": overpass_ql}, timeout)
StartAttempt ==
    /\ CanStartAttempt
    /\ pc' = "fetching"
    /\ inflight' = inflight + 1
    /\ log' = Append(log, FetchEvent(attempt, Request(config.url, call.query, config.timeout)))
    /\ last_exc' = NoExc
    /\ response' = NoResponse
    /\ UNCHANGED <<config, cache, call, attempt, qresult, outcome, cache0, heap>>

\* Mutant of AttemptSucceeds: the payload is kept and the loop goes on while
\* retries are left
AttemptSucceedsAndGoesOn(payload) ==
    /\ pc = "fetching"
    /\ inflight' = inflight - 1
    /\ log' = Append(log, OkEvent(attempt, payload))
    /\ IF RetriesLeft(attempt, config.max_retries)
       THEN /\ pc' = "attempting"
            /\ attempt' = attempt + 1
            /\ UNCHANGED <<cache, qresult, outcome>>
       ELSE /\ QueryEnds(call.op, QReturn(payload))
            /\ UNCHANGED attempt
    /\ UNCHANGED <<config, call, last_exc, cache0, heap>>

\* requests.get returned, raise_for_status passed and response.json() gave
\* payload: return response.json()
AttemptSucceeds(payload) ==
    /\ pc = "fetching"
    /\ inflight' = inflight - 1
    /\ log' = Append(log, OkEvent(attempt, payload))
    /\ QueryEnds(call.op, QReturn(payload))
    /\ UNCHANGED <<config, call, attempt, last_exc, cache0, heap>>

\* requests.get, raise_for_status or response.json() raised an exception of
\* class cls: the except clause, or the exception leaving query at once
AttemptFails(cls) ==
    /\ pc = "fetching"
    /\ inflight' = inflight - 1
    /\ last_exc' = FetchExc(cls, attempt)
    /\ IF IsRequestException(cls) /\ RetriesLeft(attempt, config.max_retries)
       THEN /\ log' = log \o <<FailEvent(attempt, IsRequestException(cls)),
                               SleepEvent(attempt, wait_time(config.retry_delay, attempt))>>
            /\ pc' = "sleeping"
            /\ UNCHANGED <<cache, qresult, outcome>>
       ELSE /\ log' = Append(log, FailEvent(attempt, IsRequestException(cls)))
            /\ QueryEnds(call.op, QRaise(FetchExc(cls, attempt)))
    /\ UNCHANGED <<config, call, attempt, cache0, heap>>

\* The exceptions requests.get itself raises, and ValueError for an exception
\* of another class raised during the attempt
RequestFailures == {"ConnectionError", "Timeout", "ValueError"}

\* requests.get raised: there is no response
RequestFails(cls) ==
    /\ response' = NoResponse
    /\ AttemptFails(cls)

\* Mutant of AttemptCompletes: the decode failure of response.json() is a
\* plain ValueError, which the except clause of query does not catch
AttemptCompletesDecodeValueError(r) ==
    /\ response' = Response(r.status_code, r.decodable, NoPayload)
    /\ IF raise_for_status(r.status_code)
       THEN AttemptFails("HTTPError")
       ELSE IF ~r.decodable
       THEN AttemptFails("ValueError")
       ELSE AttemptSucceeds(r.payload)

\* requests.get returned r: raise_for_status, then response.json(), whose
\* JSONDecodeError is requests' own, a RequestException (requests >= 2.27)
AttemptCompletes(r) ==
    /\ response' = Response(r.status_code, r.decodable, NoPayload)
    /\ IF raise_for_status(r.status_code)
       THEN AttemptFails("HTTPError")
       ELSE IF ~r.decodable
       THEN AttemptFails("JSONDecodeError")
       ELSE AttemptSucceeds(r.payload)

\* Mutant of SleepEnds: the loop starts again from attempt 0
SleepEndsRestarts ==
    /\ pc = "sleeping"
    /\ pc' = "attempting"
    /\ attempt' = 0
    /\ UNCHANGED <<config, cache, call, inflight, log, qresult, outcome, last_exc, cache0, response, heap>>

\* time.sleep returned: the next iteration of the for loop
SleepEnds ==
    /\ pc = "sleeping"
    /\ pc' = "attempting"
    /\ attempt' = attempt + 1
    /\ UNCHANGED <<config, cache, call, inflight, log, qresult, outcome, last_exc, cache0, response, heap>>

\* -------------------------------------------- OverpassClient.is_available
\* timeout=5 of the probe
PROBE_TIMEOUT == 5

\* simple_query
simple_query == "[bbox:0,0,0.1,0.1];node;out count;"

\* is_available() is called: the try block is entered
is_available ==
    /\ Begin(Call("is_available", NoBBox, NoTags, simple_query))
    /\ pc' = "probe"
    /\ qresult' = QNone
    /\ outcome' = Pending
    /\ UNCHANGED cache

\* Mutant of ProbeRequest: the probe is sent with the configured timeout
ProbeRequestConfigured == Request(config.url, simple_query, config.timeout)

\* The request of the probe
ProbeRequest == Request(config.url, simple_query, PROBE_TIMEOUT)

\* requests.get of the probe is issued and blocks
StartProbe ==
    /\ pc = "probe"
    /\ pc' = "probing"
    /\ inflight' = inflight + 1
    /\ log' = Append(log, FetchEvent(0, ProbeRequest))
    /\ UNCHANGED <<config, cache, call, attempt, qresult, outcome, last_exc, cache0, response, heap>>

\* Mutant of ProbeResult: every status of 200..299 counts as available
ProbeResult2xx(status_code) == 200 <= status_code /\ status_code < 300

\* return response.status_code == 200
ProbeResult(status_code) == status_code = 200

\* requests.get of the probe returned a response with this status
ProbeCompletes(status_code) ==
    /\ pc = "probing"
    /\ pc' = "idle"
    /\ inflight' = inflight - 1
    /\ response' = Response(status_code, FALSE, NoPayload)
    /\ outcome' = ReturnValue(ProbeResult(status_code))
    /\ UNCHANGED <<config, cache, call, attempt, log, qresult, last_exc, cache0, heap>>

\* requests.get of the probe raised: except RequestException: return False;
\* an exception of another class leaves is_available
ProbeFails(cls) ==
    /\ pc = "probing"
    /\ pc' = "idle"
    /\ inflight' = inflight - 1
    /\ last_exc' = FetchExc(cls, 0)
    /\ outcome' = IF IsRequestException(cls)
                  THEN ReturnValue(FALSE)
                  ELSE Raise(FetchExc(cls, 0))
    /\ UNCHANGED <<config, cache, call, attempt, log, qresult, cache0, response, heap>>

\* ------------------------------------- polygon_repository.py, the CRUD part
\* A call of a cache operation: the id or the polygon it is given
CacheCall(op, item_id, item) ==
    [op |-> op, bbox |-> NoBBox, tags |-> NoTags, query |-> QueryText(<<>>, "", <<>>, ""),
     item_id |-> item_id, item |-> item]

\* The polygons a caller passes to save: those the parser builds from the way
\* elements
SavedPolygons ==
    { _parse_element(e, WAY).polygon : e \in { w \in WayElements : _parse_element(w, WAY).ok } }

\* A cache operation runs to its end in one step, without a fetch
CacheOpEnds(out, c) ==
    /\ pc' = "idle"
    /\ qresult' = QNone
    /\ outcome' = out
    /\ cache' = c

\* Mutant of Save: the cache is replaced by one that holds only the item
SaveEvictsOthers(item) ==
    /\ Begin(CacheCall("save", item.osm_id, item))
    /\ CacheOpEnds(ReturnValue(item), save(<<>>, item))

\* PolygonRepository.save(item)
Save(item) ==
    /\ Begin(CacheCall("save", item.osm_id, item))
    /\ CacheOpEnds(ReturnValue(item), save(cache, item))

\* PolygonRepository.delete(item_id)
Delete(item_id) ==
    /\ Begin(CacheCall("delete", item_id, None))
    /\ LET r == delete(cache, item_id) IN CacheOpEnds(ReturnValue(r.result), r.cache)

\* Mutant of FindAll: the cached polygons are returned, in the order of their ids
FindAllReturnsCache ==
    /\ Begin(CacheCall("find_all", 0, None))
    /\ CacheOpEnds(Return(NoPayload,
                          IF 1 \in DOMAIN cache /\ 2 \in DOMAIN cache
                          THEN <<cache[1], cache[2]>>
                          ELSE IF 1 \in DOMAIN cache THEN <<cache[1]>>
                          ELSE IF 2 \in DOMAIN cache THEN <<cache[2]>>
                          ELSE <<>>),
                   cache)

\* PolygonRepository.find_all(): raise NotImplementedError
FindAll ==
    /\ Begin(CacheCall("find_all", 0, None))
    /\ CacheOpEnds(Raise([cls |-> "NotImplementedError", src |-> "find_all", at |-> -1]), cache)

\* Mutant of FindById: the entry that is found is taken out of the cache
FindByIdPops(item_id) ==
    /\ Begin(CacheCall("find_by_id", item_id, None))
    /\ CacheOpEnds(ReturnValue(find_by_id(cache, item_id)), delete(cache, item_id).cache)

\* PolygonRepository.find_by_id(item_id)
FindById(item_id) ==
    /\ Begin(CacheCall("find_by_id", item_id, None))
    /\ CacheOpEnds(ReturnValue(find_by_id(cache, item_id)), cache)

\* PolygonRepository.clear_cache(): returns None
ClearCache ==
    /\ Begin(CacheCall("clear_cache", 0, None))
    /\ CacheOpEnds(ReturnValue(None), clear_cache(cache))

\* PolygonRepository.get_cache_size()
GetCacheSize ==
    /\ Begin(CacheCall("get_cache_size", 0, None))
    /\ CacheOpEnds(ReturnValue(get_cache_size(cache)), cache)

Init ==
    /\ config \in Configs
    /\ cache = <<>>
    /\ call = NoCall
    /\ pc = "idle"
    /\ attempt = 0
    /\ inflight = 0
    /\ log = <<>>
    /\ qresult = QNone
    /\ outcome = Pending
    /\ last_exc = NoExc
    /\ cache0 = <<>>
    /\ response = NoResponse
    /\ heap = <<>>

Next ==
    \/ \E q \in RawQueries : query(q)
    \/ \E b \in BBoxes, t \in TagArgs : find_ways(b, t)
    \/ \E b \in BBoxes, t \in TagArgs : find_relations(b, t)
    \/ \E b \in BBoxes, t \in TagArgs \ {NoTags} : find_by_tags(b, t)
    \/ StartAttempt
    \/ \E r \in Responses : AttemptCompletes(r)
    \/ \E cls \in RequestFailures : RequestFails(cls)
    \/ SleepEnds
    \/ \E p \in SavedPolygons : Save(p)
    \/ \E id \in Ids : Delete(id)
    \/ FindAll
    \/ \E id \in Ids : FindById(id)
    \/ ClearCache
    \/ GetCacheSize
    \/ is_available
    \/ StartProbe
    \/ \E st \in StatusCodes : ProbeCompletes(st)
    \/ \E cls \in RequestFailures : ProbeFails(cls)

Spec == Init /\ [][Next]_vars

\* The calls of client.query alone.  The code is synchronous: once in the
\* loop body it issues the fetch; every fetch returns (with a response or by
\* raising) and every sleep returns
QuerySpec ==
    /\ Init
    /\ [][\/ \E q \in RawQueries : query(q)
          \/ StartAttempt
          \/ \E r \in Responses : AttemptCompletes(r)
          \/ \E cls \in RequestFailures : RequestFails(cls)
          \/ SleepEnds]_vars
    /\ WF_vars(StartAttempt)
    /\ WF_vars((\E r \in Responses : AttemptCompletes(r))
               \/ (\E cls \in RequestFailures : RequestFails(cls)))
    /\ WF_vars(SleepEnds)

\* ------------------------------- _query_and_parse, from query's return on
\* The batches query returns: their elements are those of the responses
\* above, a way whose "geometry" is an empty list, and a node and an element
\* without "type" that carry the geometry of a way
ParseBatches ==
    { Payload("elements", es) :
        es \in SeqsUpTo(Elements \cup { Element(WAY, 1, TRUE, <<>>, TRUE, SomeTags),
                                        Element(NODE, 1, TRUE, <<NA, NB, NC>>, TRUE, SomeTags),
                                        Element("none", 2, TRUE, <<NB, NC>>, TRUE, SomeTags) },
                        MaxElems) }

\* find_ways was called with a well-formed box and has called client.query;
\* the cache it finds is empty or was filled by one or two saves
ParseInit ==
    /\ config = [max_retries |-> 3, retry_delay |-> 1,
                 timeout |-> DEFAULT_TIMEOUT, url |-> DEFAULT_URL]
    /\ cache \in { <<>> } \cup { save(<<>>, p) : p \in SavedPolygons }
                \cup { save(save(<<>>, p), q) : p \in SavedPolygons, q \in SavedPolygons }
    /\ cache0 = cache
    /\ call = Call("find_ways", BoundingBox(48, 2, 49, 3), NoTags,
                   WayQuery(BoundingBox(48, 2, 49, 3), NoTags))
    /\ pc = "querying"
    /\ attempt = 0
    /\ inflight = 0
    /\ log = <<>>
    /\ qresult = QNone
    /\ outcome = Pending
    /\ last_exc = NoExc
    /\ response = NoResponse
    /\ heap = <<>>

\* client.query returns a batch, which _query_and_parse goes through
QueryReturns(payload) ==
    /\ pc = "querying"
    /\ QueryEnds(call.op, QReturn(payload))
    /\ UNCHANGED <<config, call, attempt, inflight, log, last_exc, cache0, response, heap>>

ParseSpec == ParseInit /\ [][\E payload \in ParseBatches : QueryReturns(payload)]_vars

\* ------------------------------------------- BoundingBox.is_valid, alone
\* The boxes is_valid is called on: each latitude and longitude at an end of
\* its range, one past it, or in the middle
ValidatedBoxes ==
    { BoundingBox(lat_min, lon_min, lat_max, lon_max) :
        lat_min \in {-91, -90, 0, 90, 91}, lon_min \in {-181, -180, 0, 180, 181},
        lat_max \in {-91, -90, 0, 90, 91}, lon_max \in {-181, -180, 0, 180, 181} }

\* The variables of the repository and of the client, which these calls leave
\* as they are after construction
Untouched ==
    <<config, cache, attempt, inflight, log, qresult, last_exc, cache0, response, heap>>

AfterConstruction ==
    /\ config = [max_retries |-> 3, retry_delay |-> 1,
                 timeout |-> DEFAULT_TIMEOUT, url |-> DEFAULT_URL]
    /\ cache = <<>>
    /\ attempt = 0
    /\ inflight = 0
    /\ log = <<>>
    /\ qresult = QNone
    /\ last_exc = NoExc
    /\ cache0 = <<>>
    /\ response = NoResponse
    /\ heap = <<>>

\* A box has been constructed from four numbers
BBoxInit ==
    /\ AfterConstruction
    /\ call \in { Call("is_valid", b, NoTags, QueryText(<<>>, "", <<>>, "")) :
                     b \in ValidatedBoxes }
    /\ pc = "ready"
    /\ outcome = Pending

\* bbox.is_valid() is called and returns
BBoxIsValid ==
    /\ pc = "ready"
    /\ call.op = "is_valid"
    /\ pc' = "idle"
    /\ outcome' = ReturnValue(is_valid(call.bbox))
    /\ UNCHANGED <<call, Untouched>>

BBoxSpec == BBoxInit /\ [][BBoxIsValid]_vars

\* ------------------------------------------------- _parse_element, alone
\* An element and the expected kind are at hand: the geometry is a list of up
\* to MaxNodes nodes, one of which may lack "lon", or is absent
ElementInit ==
    /\ AfterConstruction
    /\ call \in { [op |-> "_parse_element", element |-> e, polygon_type |-> t] :
                     e \in { Element(WAY, 1, TRUE, g, TRUE, SomeTags) :
                               g \in SeqsUpTo({NA, NB, BadNode(11)}, MaxNodes) }
                           \cup { Element(WAY, 2, TRUE, g, FALSE, EmptyDict) :
                                    g \in SeqsUpTo({NA, NB}, MaxNodes) }
                           \cup { Element(WAY, 2, FALSE, <<>>, TRUE, SomeTags) },
                     t \in {WAY, RELATION, NODE} }
    /\ pc = "ready"
    /\ outcome = Pending

\* self._parse_element(element, polygon_type) is called and returns
ParseElement ==
    /\ pc = "ready"
    /\ call.op = "_parse_element"
    /\ pc' = "idle"
    /\ outcome' = ReturnValue(_parse_element(call.element, call.polygon_type))
    /\ UNCHANGED <<call, Untouched>>

ElementSpec == ElementInit /\ [][ParseElement]_vars

\* ------------------------------------------------ Python float arithmetic
\* A natural number of any size is the sequence of its digits in base 2^15,
\* least significant first, without leading zero digits: <<>> is 0.
Base == Pow2(15)

RECURSIVE BigTrim(_)
BigTrim(a) ==
    IF a # <<>> /\ a[Len(a)] = 0 THEN BigTrim(SubSeq(a, 1, Len(a) - 1)) ELSE a

RECURSIVE BigOfInt(_)
BigOfInt(n) == IF n = 0 THEN <<>> ELSE <<n % Base>> \o BigOfInt(n \div Base)

RECURSIVE BigAddC(_, _, _)
BigAddC(a, b, carry) ==
    IF a = <<>> /\ b = <<>>
    THEN IF carry = 0 THEN <<>> ELSE <<carry>>
    ELSE LET x == IF a = <<>> THEN 0 ELSE a[1]
             y == IF b = <<>> THEN 0 ELSE b[1]
             s == x + y + carry
         IN  <<s % Base>> \o BigAddC(IF a = <<>> THEN a ELSE Tail(a),
                                     IF b = <<>> THEN b ELSE Tail(b), s \div Base)

\* a - b for a >= b
RECURSIVE BigSubB(_, _, _)
BigSubB(a, b, borrow) ==
    IF a = <<>> THEN <<>>
    ELSE LET y == IF b = <<>> THEN 0 ELSE b[1]
             d == a[1] - y - borrow
         IN  <<(d + Base) % Base>> \o BigSubB(Tail(a), IF b = <<>> THEN b ELSE Tail(b),
                                              IF d < 0 THEN 1 ELSE 0)

BigSub(a, b) == BigTrim(BigSubB(a, b, 0))

\* -1, 0 or 1 as a is less than, equal to or greater than b
RECURSIVE BigCmp(_, _)
BigCmp(a, b) ==
    IF Len(a) # Len(b) THEN (IF Len(a) < Len(b) THEN -1 ELSE 1)
    ELSE IF a = <<>> THEN 0
    ELSE IF a[Len(a)] # b[Len(b)] THEN (IF a[Len(a)] < b[Len(b)] THEN -1 ELSE 1)
    ELSE BigCmp(SubSeq(a, 1, Len(a) - 1), SubSeq(b, 1, Len(b) - 1))

BigShiftDigits(a, n) == IF a = <<>> THEN <<>> ELSE [i \in 1..n |-> 0] \o a

\* a * k for a digit k
RECURSIVE BigMulSmall(_, _)
BigMulSmall(a, k) ==
    IF a = <<>> THEN <<>>
    ELSE BigAddC(BigOfInt(a[1] * k), BigShiftDigits(BigMulSmall(Tail(a), k), 1), 0)

RECURSIVE BigMul(_, _)
BigMul(a, b) ==
    IF b = <<>> THEN <<>>
    ELSE BigAddC(BigMulSmall(a, b[1]), BigShiftDigits(BigMul(a, Tail(b)), 1), 0)

\* Quotient and remainder of a by n, for 0 < n <= 2^15; the quotient may
\* have leading zero digits
RECURSIVE BigDivSmall(_, _)
BigDivSmall(a, n) ==
    IF a = <<>> THEN [q |-> <<>>, r |-> 0]
    ELSE LET hi == BigDivSmall(Tail(a), n)
             cur == hi.r * Base + a[1]
         IN  [q |-> <<cur \div n>> \o hi.q, r |-> cur % n]

\* a * 2^k and the integer part of a / 2^k
BigShl(a, k) == BigShiftDigits(BigMulSmall(a, Pow2(k % 15)), k \div 15)
BigShr(a, k) == BigTrim(BigDivSmall(SubSeq(a, (k \div 15) + 1, Len(a)), Pow2(k % 15)).q)

RECURSIVE SmallBitLen(_)
SmallBitLen(n) == IF n = 0 THEN 0 ELSE 1 + SmallBitLen(n \div 2)

\* The number of binary digits of a
BitLen(a) == IF a = <<>> THEN 0 ELSE 15 * (Len(a) - 1) + SmallBitLen(a[Len(a)])

\* A Python float (IEEE 754 binary64) that is finite: the number m * 2^e,
\* negated when neg, with m odd; zero is FZero.  A float is a multiple of
\* 2^MinExponent, the smallest positive float (5e-324): below 2^-1022 it has
\* fewer than 53 digits.  Exponents stay far from the overflow threshold for
\* the values used here.
MantissaBits == 53
MinExponent == -1074

FZero == [neg |-> FALSE, m |-> <<>>, e |-> 0]

RECURSIVE FCanon(_, _, _)
FCanon(neg, m, e) ==
    IF m = <<>> THEN FZero
    ELSE IF m[1] = 0 THEN FCanon(neg, Tail(m), e + 15)
    ELSE IF m[1] % 2 = 0 THEN FCanon(neg, BigShr(m, 1), e + 1)
    ELSE [neg |-> neg, m |-> m, e |-> e]

\* The float nearest to m * 2^e (plus a fraction of 2^e when sticky), ties to
\* the even mantissa
FRound(neg, m, e, sticky) ==
    LET k == IF BitLen(m) - MantissaBits > MinExponent - e
             THEN BitLen(m) - MantissaBits
             ELSE MinExponent - e
    IN  IF k <= 0 THEN FCanon(neg, m, e)
        ELSE LET q == IF k >= BitLen(m) THEN <<>> ELSE BigShr(m, k)
                 rem == BigSub(m, BigShl(q, k))
                 half == BigShl(<<1>>, k - 1)
                 c == BigCmp(rem, half)
                 up == c = 1 \/ (c = 0 /\ (sticky \/ (q # <<>> /\ q[1] % 2 = 1)))
             IN  FCanon(neg, IF up THEN BigAddC(q, <<1>>, 0) ELSE q, e + k)

\* float(n) for an int n
FFromInt(n) == FCanon(n < 0, BigOfInt(IF n < 0 THEN -n ELSE n), 0)

\* a * b
FMul(a, b) == FRound(a.neg # b.neg, BigMul(a.m, b.m), a.e + b.e, FALSE)

\* a + b
FAdd(a, b) ==
    LET e == IF a.e < b.e THEN a.e ELSE b.e
        x == BigShl(a.m, a.e - e)
        y == BigShl(b.m, b.e - e)
    IN  IF a.neg = b.neg THEN FRound(a.neg, BigAddC(x, y, 0), e, FALSE)
        ELSE IF BigCmp(x, y) >= 0 THEN FRound(a.neg, BigSub(x, y), e, FALSE)
        ELSE FRound(b.neg, BigSub(y, x), e, FALSE)

\* a - b
FSub(a, b) == FAdd(a, IF b.m = <<>> THEN b ELSE [b EXCEPT !.neg = ~b.neg])

\* abs(a)
FAbs(a) == [a EXCEPT !.neg = FALSE]

\* a / n for an int n with 0 < n <= 2^15
FDivInt(a, n) ==
    LET d == BigDivSmall(BigShl(a.m, 75), n)
    IN  FRound(a.neg, BigTrim(d.q), a.e - 75, d.r # 0)

\* a <= b and a < b
FLe(a, b) == FSub(a, b).neg \/ FSub(a, b).m = <<>>
FLt(a, b) == FSub(a, b).neg

\* p / q as Python computes it from two ints, q > 0
Ratio(p, q) == FDivInt(FFromInt(p), q)

\* ------------------------------------------------- Polygon.get_area, alone
\* The loop of get_area from index i on (i = 1 is the first coordinate):
\* area += (x1 * y2) - (x2 * y1) for each pair of consecutive coordinates
RECURSIVE ShoelaceSum(_, _, _)
ShoelaceSum(coordinates, i, area) ==
    IF i > Len(coordinates) - 1 THEN area
    ELSE LET x1 == coordinates[i][1]
             y1 == coordinates[i][2]
             x2 == coordinates[i + 1][1]
             y2 == coordinates[i + 1][2]
         IN  ShoelaceSum(coordinates, i + 1, FAdd(area, FSub(FMul(x1, y2), FMul(x2, y1))))

\* Mutant of get_area: the sum is halved without taking its absolute value
get_area_signed(coordinates) ==
    IF ~is_closed(coordinates) \/ Len(coordinates) < 3
    THEN FZero
    ELSE FDivInt(ShoelaceSum(coordinates, 1, FZero), 2)

\* Polygon.get_area, on the coordinates
get_area(coordinates) ==
    IF ~is_closed(coordinates) \/ Len(coordinates) < 3
    THEN FZero
    ELSE FDivInt(FAbs(ShoelaceSum(coordinates, 1, FZero)), 2)

\* The longest coordinate list get_area is called on
MaxCoords == 5

\* A coordinate [x, y] given as two ints over 2, that is in half units
Point(hx, hy) == <<Ratio(hx, 2), Ratio(hy, 2)>>

\* The polygons get_area is called on: their coordinates are among the
\* corners of the unit square and the apex (0.5, 1) of the triangle
AreaPolygons ==
    { Polygon(1, WAY, cs, EmptyDict) :
        cs \in SeqsUpTo({ Point(0, 0), Point(2, 0), Point(2, 2), Point(0, 2), Point(1, 2) },
                        MaxCoords) }

\* A polygon has been constructed from a list of coordinates
AreaInit ==
    /\ AfterConstruction
    /\ call \in { [op |-> "get_area", polygon |-> p] : p \in AreaPolygons }
    /\ pc = "ready"
    /\ outcome = Pending

\* polygon.get_area() is called and returns
GetArea ==
    /\ pc = "ready"
    /\ call.op = "get_area"
    /\ pc' = "idle"
    /\ outcome' = ReturnValue(get_area(call.polygon.coordinates))
    /\ UNCHANGED <<call, Untouched>>

AreaSpec == AreaInit /\ [][GetArea]_vars

\* ------------------------------------------------------ polygon_service.py
\* A dict built from several, a later one overriding an earlier one on the
\* keys they share: {**d1, **d2}
Merge(d1, d2) ==
    [k \in DOMAIN d1 \cup DOMAIN d2 |-> IF k \in DOMAIN d2 THEN d2[k] ELSE d1[k]]

\* Mutant of to_geojson_feature: the tags are merged after the properties
to_geojson_feature_tags_last(polygon) ==
    [type |-> "Feature",
     geometry |-> [type |-> "Polygon", coordinates |-> <<polygon.coordinates>>],
     properties |-> Merge(Merge([osm_id |-> polygon.osm_id, type |-> polygon.polygon_type],
                                polygon.properties),
                          polygon.tags)]

\* Polygon.to_geojson_feature; polygon_type.value is the string the enum
\* member stands for
to_geojson_feature(polygon) ==
    [type |-> "Feature",
     geometry |-> [type |-> "Polygon", coordinates |-> <<polygon.coordinates>>],
     properties |-> Merge(Merge([osm_id |-> polygon.osm_id, type |-> polygon.polygon_type],
                                polygon.tags),
                          polygon.properties)]

\* An optional argument: max_area given, or left at its default None
Given(v) == [given |-> TRUE, value |-> v]
NotGiven == [given |-> FALSE, value |-> FZero]

\* Mutant of filter_by_area: "if max_area" for "if max_area is not None"
filter_by_area_truthy_max(polygons, min_area, max_area) ==
    LET AtLeast(q) == FLe(min_area, get_area(q.coordinates))
        AtMost(q) == FLe(get_area(q.coordinates), max_area.value)
        filtered == SelectSeq(polygons, AtLeast)
    IN  [result |-> IF max_area.given /\ max_area.value # FZero
                    THEN SelectSeq(filtered, AtMost)
                    ELSE filtered,
         polygons |-> polygons]

\* filter_by_area: the list it returns, and the list it was passed as it is
\* after the call
filter_by_area(polygons, min_area, max_area) ==
    LET AtLeast(q) == FLe(min_area, get_area(q.coordinates))
        AtMost(q) == FLe(get_area(q.coordinates), max_area.value)
        filtered == SelectSeq(polygons, AtLeast)
    IN  [result |-> IF max_area.given
                    THEN SelectSeq(filtered, AtMost)
                    ELSE filtered,
         polygons |-> polygons]

\* A value that is a str or None
Str(text) == [none |-> FALSE, str |-> text]
PyNone == [none |-> TRUE, str |-> ""]

\* dict.get(key): the value under key, None when the key is absent
dict_get(d, key) == IF key \in DOMAIN d THEN Str(d[key]) ELSE PyNone

\* filter_by_tag_value
filter_by_tag_value(polygons, tag_key, tag_value) ==
    LET Matches(q) == dict_get(q.tags, tag_key) = tag_value
    IN  SelectSeq(polygons, Matches)

\* convert_to_geojson
convert_to_geojson(polygons) ==
    [type |-> "FeatureCollection",
     features |-> [i \in DOMAIN polygons |-> to_geojson_feature(polygons[i])]]

\* sum(areas), the builtin of the interpreter the program runs on, from the
\* total and the compensation c reached so far.  The total is the additions
\* from left to right.  CPython up to 3.11 returns it; CPython 3.12 and later
\* (compensated) also add up the rounding error of each addition, (total - t)
\* + x or (x - t) + total after the greater of the two in magnitude, and
\* return the total plus that compensation when it is not zero
RECURSIVE sum(_, _, _, _)
sum(xs, total, c, compensated) ==
    IF xs = <<>>
    THEN IF c.m # <<>> THEN FAdd(total, c) ELSE total
    ELSE LET x == xs[1]
             t == FAdd(total, x)
         IN  sum(Tail(xs), t,
                 IF ~compensated THEN c
                 ELSE IF FLe(FAbs(x), FAbs(total))
                      THEN FAdd(c, FAdd(FSub(total, t), x))
                      ELSE FAdd(c, FAdd(FSub(x, t), total)),
                 compensated)

\* min(areas) and max(areas), for a list that is not empty: the first least
\* and the first greatest
RECURSIVE min(_)
min(xs) ==
    IF Len(xs) = 1 THEN xs[1]
    ELSE LET best == min(SubSeq(xs, 1, Len(xs) - 1))
         IN  IF FLt(xs[Len(xs)], best) THEN xs[Len(xs)] ELSE best

RECURSIVE max(_)
max(xs) ==
    IF Len(xs) = 1 THEN xs[1]
    ELSE LET best == max(SubSeq(xs, 1, Len(xs) - 1))
         IN  IF FLt(best, xs[Len(xs)]) THEN xs[Len(xs)] ELSE best

\* Mutant of get_statistics: the average is taken over one polygon too many
get_statistics_off_by_one(polygons, compensated) ==
    IF polygons = <<>>
    THEN [count |-> 0, avg_area |-> FZero, min_area |-> FZero,
          max_area |-> FZero, total_area |-> FZero]
    ELSE LET areas == [i \in DOMAIN polygons |-> get_area(polygons[i].coordinates)]
             total_area == sum(areas, FZero, FZero, compensated)
         IN  [count |-> Len(polygons),
              avg_area |-> FDivInt(total_area, Len(polygons) + 1),
              min_area |-> min(areas),
              max_area |-> max(areas),
              total_area |-> total_area]

\* get_statistics, on an interpreter whose sum() is compensated or is not
get_statistics(polygons, compensated) ==
    IF polygons = <<>>
    THEN [count |-> 0, avg_area |-> FZero, min_area |-> FZero,
          max_area |-> FZero, total_area |-> FZero]
    ELSE LET areas == [i \in DOMAIN polygons |-> get_area(polygons[i].coordinates)]
             total_area == sum(areas, FZero, FZero, compensated)
         IN  [count |-> Len(polygons),
              avg_area |-> FDivInt(total_area, Len(polygons)),
              min_area |-> min(areas),
              max_area |-> max(areas),
              total_area |-> total_area]

\* The longest list of polygons the service is called with
MaxPolys == 3

\* The triangle (0,0), (w,0), (w,1), (0,0), of area w / 2
TriangleOfWidth(w) ==
    << <<FZero, FZero>>, <<w, FZero>>, <<w, FFromInt(1)>>, <<FZero, FZero>> >>

\* The polygons the service is called with: a triangle of area 0.1, one of
\* area 0.25 whose tags and properties share a key, the unit square without
\* the tag "building" and with a tag and a property under the computed keys,
\* an open line of area 0, and a triangle of width 2^-1073 whose area is the
\* smallest positive float, 5e-324
ServicePolygons ==
    { Polygon(1, WAY, TriangleOfWidth(Ratio(1, 5)), [building |-> "yes"]),
      [Polygon(2, WAY, TriangleOfWidth(Ratio(1, 2)), [building |-> "no", name |-> "a"])
          EXCEPT !.properties = [name |-> "b", height |-> "3"]],
      [Polygon(3, RELATION,
               <<Point(0, 0), Point(2, 0), Point(2, 2), Point(0, 2), Point(0, 0)>>,
               [type |-> "multipolygon"])
          EXCEPT !.properties = [osm_id |-> "three"]],
      Polygon(4, WAY, <<Point(0, 0), Point(2, 0), Point(2, 2)>>, [building |-> "yes"]),
      Polygon(5, WAY, TriangleOfWidth([neg |-> FALSE, m |-> <<1>>, e |-> MinExponent + 1]),
              [building |-> "yes"]) }

\* A call of an operation of the service on a list of polygons
ServiceCall(op, polygons, min_area, max_area, tag_key, tag_value) ==
    [op |-> op, polygons |-> polygons, min_area |-> min_area, max_area |-> max_area,
     tag_key |-> tag_key, tag_value |-> tag_value]

\* The caller holds a list of polygons
ServiceInit ==
    /\ AfterConstruction
    /\ call \in { ServiceCall("none", ps, FZero, NotGiven, "", PyNone) :
                     ps \in SeqsUpTo(ServicePolygons, MaxPolys) }
    /\ pc = "ready"
    /\ outcome = Pending

\* The call returns v; polygons is the list it was passed, as it is after
\* the call
ServiceCallEnds(op, min_area, max_area, tag_key, tag_value, v, polygons) ==
    /\ pc = "ready"
    /\ call.op = "none"
    /\ pc' = "idle"
    /\ call' = ServiceCall(op, call.polygons, min_area, max_area, tag_key, tag_value)
    /\ outcome' = [kind |-> "value", value |-> v, polygons |-> polygons]
    /\ UNCHANGED Untouched

FilterByArea(min_area, max_area) ==
    LET r == filter_by_area(call.polygons, min_area, max_area)
    IN  ServiceCallEnds("filter_by_area", min_area, max_area, "", PyNone,
                        r.result, r.polygons)

FilterByTagValue(tag_key, tag_value) ==
    ServiceCallEnds("filter_by_tag_value", FZero, NotGiven, tag_key, tag_value,
                    filter_by_tag_value(call.polygons, tag_key, tag_value), call.polygons)

ConvertToGeojson ==
    ServiceCallEnds("convert_to_geojson", FZero, NotGiven, "", PyNone,
                    convert_to_geojson(call.polygons), call.polygons)

\* The interpreter is not fixed by the repository: either sum() is the
\* caller's
GetStatistics ==
    \E compensated \in BOOLEAN :
        ServiceCallEnds("get_statistics", FZero, NotGiven, "", PyNone,
                        get_statistics(call.polygons, compensated), call.polygons)

\* min_area is 0, 0.1 or 0.25; max_area is absent, 0, 0.1 or 1; the tag
\* value is a str or None
ServiceNext ==
    \/ \E min_area \in { FZero, Ratio(1, 10), Ratio(1, 4) },
          max_area \in { NotGiven, Given(FZero), Given(Ratio(1, 10)), Given(FFromInt(1)) } :
            FilterByArea(min_area, max_area)
    \/ \E tag_key \in { "building", "name" }, tag_value \in { Str("yes"), Str("no"), PyNone } :
            FilterByTagValue(tag_key, tag_value)
    \/ ConvertToGeojson
    \/ GetStatistics

ServiceSpec == ServiceInit /\ [][ServiceNext]_vars

\* ----------------------------------- Polygon objects shared with the cache
\* Python hands objects around by reference.  Here a Polygon object lives at
\* an address of the heap, and what save is passed, what the cache stores and
\* what find_by_id and find_ways return are references: the address, with the
\* osm_id that save reads through it when it files the reference.  The pairs
\* of the coordinates are list objects too: Polygon.close() appends the first
\* pair itself, not a copy, so an object records at which further positions
\* its coordinates hold the list object of the first pair (first_again).
MaxObjects == 2      \* at most MaxObjects Polygon objects are constructed

\* The object _parse_element(element, WAY) builds for an element it parses: a
\* new list per node, and the first of them again at the end when close()
\* appended it
Built(element) ==
    LET polygon == _parse_element(element, WAY).polygon
    IN  [osm_id |-> polygon.osm_id, polygon_type |-> polygon.polygon_type,
         coordinates |-> polygon.coordinates, tags |-> polygon.tags,
         properties |-> polygon.properties,
         first_again |-> IF Len(polygon.coordinates) > Len(element.geometry)
                         THEN {Len(polygon.coordinates)}
                         ELSE {}]

\* A caller has just constructed the repository
SharingInit ==
    /\ AfterConstruction
    /\ call = NoCall
    /\ pc = "idle"
    /\ outcome = Pending

\* A caller constructs a Polygon: a new object
NewPolygon(polygon) ==
    /\ Len(heap) < MaxObjects
    /\ heap' = Append(heap, polygon)
    /\ call' = [op |-> "Polygon", item |-> Len(heap) + 1]
    /\ outcome' = Pending
    /\ cache0' = cache
    /\ UNCHANGED <<config, cache, pc, attempt, inflight, log, qresult, last_exc, response>>

\* Mutant of SaveObject: the cache keeps a copy of the object it is passed
SaveObjectCopy(a) ==
    /\ a \in DOMAIN heap
    /\ Len(heap) < MaxObjects
    /\ heap' = Append(heap, heap[a])
    /\ cache' = save(cache, [osm_id |-> heap[a].osm_id, at |-> Len(heap) + 1])
    /\ call' = [op |-> "save", item |-> a]
    /\ outcome' = ReturnValue([osm_id |-> heap[a].osm_id, at |-> Len(heap) + 1])
    /\ cache0' = cache
    /\ UNCHANGED <<config, pc, attempt, inflight, log, qresult, last_exc, response>>

\* repository.save(item), item the object at address a: self._cache[item.osm_id]
\* = item; return item
SaveObject(a) ==
    /\ a \in DOMAIN heap
    /\ cache' = save(cache, [osm_id |-> heap[a].osm_id, at |-> a])
    /\ call' = [op |-> "save", item |-> a]
    /\ outcome' = ReturnValue([osm_id |-> heap[a].osm_id, at |-> a])
    /\ cache0' = cache
    /\ UNCHANGED <<config, pc, attempt, inflight, log, qresult, last_exc, response, heap>>

\* A caller changes the object at address a, to which it holds a reference:
\* polygon.coordinates.clear(), polygon.tags["name"] = "x",
\* polygon.properties["height"] = "3", polygon.close() or
\* polygon.coordinates[0][0] = 5.  The last two raise IndexError on empty
\* coordinates and change nothing; close() appends the first pair itself when
\* is_closed() is false, and an assignment into the first pair shows at every
\* position that holds that pair
MutateObject(a, attr) ==
    /\ a \in DOMAIN heap
    /\ LET polygon == heap[a]
           coordinates == polygon.coordinates
           raises == attr \in {"close", "pair"} /\ coordinates = <<>>
       IN  /\ heap' = [heap EXCEPT ![a] =
                  CASE raises -> polygon
                    [] attr = "coordinates" ->
                         [polygon EXCEPT !.coordinates = <<>>, !.first_again = {}]
                    [] attr = "tags" ->
                         [polygon EXCEPT !.tags = Merge(polygon.tags, [name |-> "x"])]
                    [] attr = "properties" ->
                         [polygon EXCEPT !.properties = Merge(polygon.properties, [height |-> "3"])]
                    [] attr = "close" /\ ~raises ->
                         IF ~is_closed(coordinates)
                         THEN [polygon EXCEPT
                                 !.coordinates = Append(coordinates, coordinates[1]),
                                 !.first_again = polygon.first_again \cup {Len(coordinates) + 1}]
                         ELSE polygon
                    [] attr = "pair" /\ ~raises ->
                         [polygon EXCEPT !.coordinates =
                            [i \in DOMAIN coordinates |->
                               IF i \in {1} \cup polygon.first_again
                               THEN [coordinates[i] EXCEPT ![1] = 5]
                               ELSE coordinates[i]]]]
           /\ outcome' = IF raises
                         THEN Raise([cls |-> "IndexError", src |-> attr, at |-> -1])
                         ELSE Pending
    /\ call' = [op |-> "mutate", item |-> a, attr |-> attr]
    /\ cache0' = cache
    /\ UNCHANGED <<config, cache, pc, attempt, inflight, log, qresult, last_exc, response>>

\* repository.find_by_id(item_id): the reference stored under the id, or None
FindObjectById(item_id) ==
    /\ call' = [op |-> "find_by_id", item_id |-> item_id]
    /\ outcome' = ReturnValue(find_by_id(cache, item_id))
    /\ cache0' = cache
    /\ UNCHANGED <<config, cache, pc, attempt, inflight, log, qresult, last_exc, response, heap>>

\* The saves of the loop of _query_and_parse, on the references it made
RECURSIVE SaveAll(_, _)
SaveAll(c, items) ==
    IF items = <<>> THEN c ELSE SaveAll(save(c, Head(items)), Tail(items))

\* repository.find_ways(bbox) when client.query returns payload: each polygon
\* that _parse_element builds is a new object, saved and appended to the list
\* that is returned (an empty list when the loop raised at its top level)
FindWaysObjects(payload) ==
    LET r == ParseLoop(payload.elements, 1, WAY, <<>>, <<>>)
        Parsed(k) == Len(ParseLoop(SubSeq(payload.elements, 1, k), 1, WAY, <<>>, <<>>).polygons)
        source(i) == payload.elements[CHOOSE k \in DOMAIN payload.elements :
                                          Parsed(k) = i /\ Parsed(k - 1) = i - 1]
        items == [i \in DOMAIN r.polygons |->
                     [osm_id |-> r.polygons[i].osm_id, at |-> Len(heap) + i]]
    IN  /\ Len(heap) + Len(r.polygons) <= MaxObjects
        /\ heap' = heap \o [i \in DOMAIN r.polygons |-> Built(source(i))]
        /\ cache' = SaveAll(cache, items)
        /\ call' = [op |-> "find_ways", item |-> Len(heap)]
        /\ outcome' = Return(NoPayload, IF r.raised THEN <<>> ELSE items)
        /\ cache0' = cache
        /\ UNCHANGED <<config, pc, attempt, inflight, log, qresult, last_exc, response>>

\* A caller constructs the polygon the parser builds from a way of id 1; the
\* batches of find_ways hold that way, that way and a way of id 2 with a
\* single node (its coordinates are two pairs, not closed), or that way and
\* an entry that is not an object
SharingSpec ==
    /\ SharingInit
    /\ [][\/ NewPolygon(Built(Element(WAY, 1, TRUE, <<NA, NB, NC>>, TRUE, SomeTags)))
          \/ \E a \in 1..MaxObjects : SaveObject(a)
          \/ \E a \in 1..MaxObjects,
                attr \in {"coordinates", "tags", "properties", "close", "pair"} :
                MutateObject(a, attr)
          \/ \E id \in Ids : FindObjectById(id)
          \/ \E es \in { <<Element(WAY, 1, TRUE, <<NA, NB, NC>>, TRUE, SomeTags)>>,
                         <<Element(WAY, 1, TRUE, <<NA, NB, NC>>, TRUE, SomeTags),
                           Element(WAY, 2, TRUE, <<NA>>, TRUE, SomeTags)>>,
                         <<Element(WAY, 1, TRUE, <<NA, NB, NC>>, TRUE, SomeTags), NotADict>> } :
                FindWaysObjects(Payload("elements", es))]_vars

\* ================================================================ claims
\* What the log of the current call says
Positions(ev) == { i \in DOMAIN log : log[i].ev = ev }
NFetch == Cardinality(Positions("fetch"))
NSleep == Cardinality(Positions("sleep"))
\* The call went through client.query and query has ended
QueryEnded == pc = "idle" /\ qresult.kind # "none"
Succeeded == Positions("ok") # {}
\* Every failure so far is one the retry loop catches (the transport class)
OnlyTransportFailures == \A i \in Positions("fail") : log[i].transport

\* ------------------------------------------------------------------- C1
\* C1: in a query call with max_retries = M >= 1 between 1 and M fetch
\* attempts are issued, and the first attempt that succeeds ends the call:
\* it is the last event of the call (no fetch and no sleep after it, whatever
\* budget remains), query returns the payload that attempt decoded, and a
\* direct caller of query receives exactly that payload.
C1_FirstSuccessEndsCall ==
    /\ config.max_retries >= 1 => NFetch <= config.max_retries
    /\ (config.max_retries >= 1 /\ QueryEnded) => NFetch >= 1
    /\ \A i \in Positions("ok") :
          /\ i = Len(log)
          /\ pc = "idle"
          /\ log[i - 1].ev = "fetch" /\ log[i - 1].n = log[i].n
          /\ qresult = QReturn(log[i].payload)
          /\ call.op = "query" => outcome = Return(log[i].payload, <<>>)

\* A direct query call with three attempts allowed succeeded at its second
\* attempt with a payload that carries elements: one attempt of budget is left.
C1_Witness ==
    /\ call.op = "query" /\ QueryEnded
    /\ config.max_retries = 3
    /\ Succeeded /\ NFetch = 2 /\ attempt = 1
    /\ qresult.payload.kind = "elements" /\ Len(qresult.payload.elements) = 2

\* ------------------------------------------------------------------- C2
\* The sleeps of the current call, in order
RECURSIVE SleepsOf(_)
SleepsOf(l) ==
    IF l = <<>> THEN <<>>
    ELSE IF l[1].ev = "sleep" THEN <<l[1].d>> \o SleepsOf(Tail(l))
    ELSE SleepsOf(Tail(l))

\* C2: a failure of attempt n that the retry loop catches, with
\* n < max_retries-1, is followed by exactly one sleep of retry_delay * 2^n
\* and then by attempt n+1; nothing else is followed by a sleep (not a
\* success, not the failure of the final attempt).  So the sleeps of a call
\* are retry_delay, 2*retry_delay, ... in that order, one per attempt but the
\* last: k failures then a success give k sleeps, exhaustion max_retries-1.
C2_BackoffSchedule ==
    /\ \A i \in Positions("sleep") :
          /\ i > 1 /\ log[i - 1].ev = "fail" /\ log[i - 1].n = log[i].n
          /\ log[i - 1].transport
          /\ log[i].n < config.max_retries - 1
          /\ log[i].d = config.retry_delay * 2 ^ log[i].n
          /\ i < Len(log) => log[i + 1].ev = "fetch" /\ log[i + 1].n = log[i].n + 1
          /\ i = Len(log) => pc \in {"sleeping", "attempting"}
    /\ \A i \in Positions("fail") :
          (log[i].transport /\ log[i].n < config.max_retries - 1)
             => i < Len(log) /\ log[i + 1].ev = "sleep"
    /\ \A i \in Positions("fetch") :
          log[i].n > 0 => i > 1 /\ log[i - 1].ev = "sleep" /\ log[i - 1].n = log[i].n - 1
    /\ SleepsOf(log) = [j \in 1..NSleep |-> config.retry_delay * 2 ^ (j - 1)]
    /\ pc \in {"fetching", "idle"} /\ NFetch >= 1 => NSleep = NFetch - 1
    /\ (QueryEnded /\ Succeeded) => NSleep = log[Len(log)].n
    /\ (QueryEnded /\ ~Succeeded /\ OnlyTransportFailures /\ config.max_retries >= 1)
          => NSleep = config.max_retries - 1

\* max_retries = 3, retry_delay = 1: two failures then a success, with sleeps
\* of 1 then 2 and no third sleep.
C2_Witness ==
    /\ config.max_retries = 3 /\ config.retry_delay = 1
    /\ QueryEnded /\ Succeeded
    /\ NFetch = 3
    /\ SleepsOf(log) = <<1, 2>>

\* ------------------------------------------------------------------- C3
\* C3: when every attempt of a query call (max_retries >= 1) fails with a
\* failure the retry loop catches, the call issues exactly max_retries
\* attempts and raises the exception of the final attempt itself, with no
\* payload; a direct caller of query receives that very exception.  Whatever
\* the class of the failures, a call in which no attempt succeeded raises the
\* exception of the last attempt it issued.
C3_ExhaustionRaisesLastFailure ==
    (QueryEnded /\ ~Succeeded /\ config.max_retries >= 1) =>
        /\ qresult = QRaise(last_exc)
        /\ last_exc.src = "fetch" /\ last_exc.at = NFetch - 1
        /\ last_exc.cls \in ExcClasses
        /\ log[Len(log)].ev = "fail" /\ log[Len(log)].n = last_exc.at
        /\ call.op = "query" => outcome = Raise(last_exc)
        /\ OnlyTransportFailures =>
              /\ NFetch = config.max_retries
              /\ last_exc.at = config.max_retries - 1

\* max_retries = 2 and both attempts failed with a Timeout: the call ended
\* by raising after two fetches.
C3_Witness ==
    /\ call.op = "query" /\ QueryEnded /\ ~Succeeded
    /\ config.max_retries = 2
    /\ OnlyTransportFailures
    /\ NFetch = 2
    /\ outcome.kind = "raise" /\ outcome.exc.cls = "Timeout"

\* ------------------------------------------------------------------- C4
\* C4: the attempts of one call are strictly sequential.  At most one fetch
\* is in flight, and a fetch is issued only when none is in flight and, for
\* attempt n+1, only after attempt n failed and the sleep that followed it
\* has ended.
C4_Sequential ==
    /\ [](inflight \in {0, 1} /\ (inflight = 1 <=> pc \in {"fetching", "probing"}))
    /\ [][ inflight' > inflight /\ call.op # "is_available" =>
             /\ inflight = 0
             /\ pc = "attempting"
             /\ log' = Append(log, log'[Len(log')])
             /\ log'[Len(log')].ev = "fetch" /\ log'[Len(log')].n = attempt
             /\ attempt = NFetch
             /\ attempt > 0 =>
                   /\ log[Len(log)].ev = "sleep" /\ log[Len(log)].n = attempt - 1
                   /\ log[Len(log) - 1].ev = "fail" /\ log[Len(log) - 1].n = attempt - 1
           ]_vars

\* The third attempt of a call is in flight, after two failures and two sleeps.
C4_Witness ==
    /\ pc = "fetching" /\ inflight = 1
    /\ attempt = 2 /\ NFetch = 3 /\ NSleep = 2

\* ------------------------------------------------------------------- C5
\* A box that breaks one of the six conditions of a well-formed box
IllFormed(b) ==
    \/ b.lat_min >= b.lat_max
    \/ b.lon_min >= b.lon_max
    \/ b.lat_min < -90 \/ b.lat_min > 90
    \/ b.lat_max < -90 \/ b.lat_max > 90
    \/ b.lon_min < -180 \/ b.lon_min > 180
    \/ b.lon_max < -180 \/ b.lon_max > 180

BBoxOps == {"find_ways", "find_by_tags", "find_relations"}
WayOps == {"find_ways", "find_by_tags"}

\* C5: find_ways, find_by_tags and find_relations called with an ill-formed
\* bounding box raise the invalid-bounding-box ValueError at once: the call
\* is over with no fetch and no sleep (nothing to retry), client.query was
\* not entered, and the cache is as it was when the call started.
C5_InvalidBBoxRejected ==
    (call.op \in BBoxOps /\ IllFormed(call.bbox)) =>
        /\ pc = "idle"
        /\ outcome = Raise(InvalidBBox)
        /\ log = <<>> /\ NFetch = 0 /\ NSleep = 0 /\ inflight = 0
        /\ qresult = QNone
        /\ cache = cache0

\* find_by_tags was called with the latitudes reversed on a repository whose
\* cache holds a polygon, and raised.
C5_Witness ==
    /\ call.op = "find_by_tags"
    /\ call.bbox.lat_min > call.bbox.lat_max
    /\ outcome.kind = "raise"
    /\ cache # <<>>
    /\ config.max_retries >= 1

\* ------------------------------------------------------------------- C6
\* The response makes the batch loop of _query_and_parse raise at its top
\* level: "elements" cannot be iterated, or an element is not an object
TopLevelException(payload) ==
    \/ payload.kind = "bad_elements"
    \/ payload.kind = "elements"
       /\ \E i \in 1..Len(payload.elements) : ~payload.elements[i].is_dict

\* C6: for a well-formed bbox, when query ends by raising (its retries are
\* exhausted) or the batch loop raises at its top level, find_ways returns
\* an empty list: its caller sees a normal return and no exception.
C6_FailuresGiveEmptyList ==
    (call.op \in WayOps /\ ~IllFormed(call.bbox) /\ QueryEnded
       /\ (qresult.kind = "raise" \/ TopLevelException(qresult.payload))) =>
        /\ outcome = Return(NoPayload, <<>>)
        /\ outcome.exc = NoExc

\* find_ways with two attempts allowed: both failed with a ConnectionError,
\* and find_ways returned.
C6_Witness ==
    /\ call.op = "find_ways" /\ QueryEnded
    /\ config.max_retries = 2 /\ NFetch = 2
    /\ qresult.kind = "raise" /\ qresult.exc.cls = "ConnectionError"
    /\ outcome.kind = "return"

\* ------------------------------------------------------------------- C7
\* query ended by raising the transport failure of its final attempt
Exhausted ==
    /\ QueryEnded /\ qresult.kind = "raise"
    /\ OnlyTransportFailures
    /\ NFetch = config.max_retries

\* C7 as stated: after retry exhaustion the transport failure reaches the
\* caller of find_ways, find_by_tags and find_relations unchanged.
C7_AsStated ==
    (call.op \in BBoxOps /\ Exhausted) => outcome = Raise(qresult.exc)

\* C7, amended: after retry exhaustion the transport failure reaches the
\* caller of find_relations (and a direct caller of query) unchanged, while
\* find_ways and find_by_tags catch it and return an empty list, leaving the
\* cache as it was.
C7_ExhaustionPerOperation ==
    Exhausted =>
        /\ call.op \in {"find_relations", "query"} =>
              /\ outcome = Raise(last_exc)
              /\ last_exc.at = config.max_retries - 1
              /\ IsRequestException(outcome.exc.cls)
        /\ call.op \in WayOps =>
              /\ outcome = Return(NoPayload, <<>>)
              /\ cache = cache0

\* find_relations with two attempts allowed: both failed, the HTTPError of
\* the second reached the caller.
C7_Witness ==
    /\ call.op = "find_relations" /\ Exhausted
    /\ config.max_retries = 2
    /\ outcome.kind = "raise" /\ outcome.exc.cls = "HTTPError" /\ outcome.exc.at = 1

\* ------------------------------------------------------------------- C8
ElementsOf(payload) == IF payload.kind = "elements" THEN payload.elements ELSE <<>>

\* The polygons of the way elements of es that parse, in the order of es
RECURSIVE ParsedWays(_)
ParsedWays(es) ==
    IF es = <<>> THEN <<>>
    ELSE LET e == es[1] IN
         IF e.is_dict /\ e.type = "way" /\ _parse_element(e, WAY).ok
         THEN <<_parse_element(e, WAY).polygon>> \o ParsedWays(Tail(es))
         ELSE ParsedWays(Tail(es))

\* The elements of a batch that the loop of _query_and_parse goes through:
\* all of them, or those before the first one that is not a dict
RECURSIVE Processed(_)
Processed(es) ==
    IF es = <<>> \/ ~es[1].is_dict THEN <<>>
    ELSE <<es[1]>> \o Processed(Tail(es))

PositionsOfId(polygons, id) == { j \in DOMAIN polygons : polygons[j].osm_id = id }
Max(S) == CHOOSE x \in S : \A y \in S : y <= x

\* C8 as stated: for a well-formed bbox and a fetch that succeeded,
\* find_ways returns exactly the polygons that were parsed from the way
\* elements (of those the loop went through), in the order of the response;
\* each is in the cache under its osm_id, a prior
\* entry under that id being overwritten: find_by_id(id) is the last returned
\* polygon with that id, and ids that were not returned keep their entry.
C8_AsStated ==
    (call.op \in WayOps /\ QueryEnded /\ qresult.kind = "return") =>
        /\ outcome = Return(NoPayload, ParsedWays(Processed(ElementsOf(qresult.payload))))
        /\ \A id \in Ids \cup DOMAIN cache \cup DOMAIN cache0 :
              IF PositionsOfId(outcome.polygons, id) # {}
              THEN find_by_id(cache, id)
                      = outcome.polygons[Max(PositionsOfId(outcome.polygons, id))]
              ELSE find_by_id(cache, id) = find_by_id(cache0, id)

\* ------------------------------------------------------------------- C9
\* A way element for which _parse_element gives no polygon: no geometry, an
\* empty geometry, or a node it cannot read
FailsToParse(e) ==
    /\ e.is_dict /\ e.type = "way"
    /\ \/ ~e.has_geometry
       \/ e.geometry = <<>>
       \/ \E k \in 1..Len(e.geometry) : ~e.geometry[k].has_lon

RemoveAt(seq, i) == [j \in 1..(Len(seq) - 1) |-> IF j < i THEN seq[j] ELSE seq[j + 1]]

\* C9: in a find_ways batch an element that fails to parse is dropped without
\* raising: the call returns normally, with the list and the cache it would
\* have given had the failing element been absent from the response, so the
\* elements before and after it are parsed, cached and returned all the same.
C9_ParseFailureIsLocal ==
    (call.op \in WayOps /\ QueryEnded /\ qresult.kind = "return"
       /\ qresult.payload.kind = "elements") =>
        \A i \in 1..Len(qresult.payload.elements) :
            FailsToParse(qresult.payload.elements[i]) =>
                LET without == QReturn(Payload("elements",
                                               RemoveAt(qresult.payload.elements, i)))
                    r == _query_and_parse(without, WAY, cache0)
                IN  /\ outcome.kind = "return"
                    /\ outcome = r.outcome
                    /\ cache = r.cache
                    /\ \A j \in DOMAIN outcome.polygons :
                          outcome.polygons[j] \in
                             { _parse_element(qresult.payload.elements[k], WAY).polygon :
                                 k \in DOMAIN qresult.payload.elements \ {i} }

\* A batch whose first element has a node without "lon" and whose second
\* element is a way that parses: the second is returned and cached.
C9_Witness ==
    /\ call.op = "find_ways" /\ QueryEnded /\ qresult.kind = "return"
    /\ qresult.payload.kind = "elements" /\ Len(qresult.payload.elements) = 2
    /\ FailsToParse(qresult.payload.elements[1])
    /\ qresult.payload.elements[1].has_geometry
    /\ Len(outcome.polygons) = 1
    /\ outcome.polygons[1].osm_id = qresult.payload.elements[2].id
    /\ cache[outcome.polygons[1].osm_id] = outcome.polygons[1]

\* ------------------------------------------------------------------ C10
\* C10: for a well-formed bbox, whenever the fetch of find_relations gives a
\* response, find_relations returns an empty list whatever the response
\* holds, and touches no cache entry.
C10_RelationsAlwaysEmpty ==
    (call.op = "find_relations" /\ ~IllFormed(call.bbox) /\ QueryEnded
       /\ qresult.kind = "return") =>
        /\ outcome = Return(NoPayload, <<>>)
        /\ cache = cache0

\* find_relations got a response with two elements, one of them a relation
\* with a geometry, and returned.
C10_Witness ==
    /\ call.op = "find_relations" /\ QueryEnded /\ qresult.kind = "return"
    /\ qresult.payload.kind = "elements" /\ Len(qresult.payload.elements) = 2
    /\ \E i \in 1..2 : /\ qresult.payload.elements[i].type = "relation"
                       /\ qresult.payload.elements[i].geometry # <<>>
    /\ outcome.kind = "return"

\* The number of entries of a cache
Size(c) == Cardinality(DOMAIN c)

\* A cache operation with the given name has just run to its end
Ended(op) == pc = "idle" /\ call.op = op

\* C11: save(p) is an upsert, last write wins: it returns p; afterwards
\* find_by_id(p.osm_id) gives p; when an entry was stored under that id the
\* number of entries is the same as before, and otherwise one more; the
\* entries under the other ids are as they were.
C11_SaveIsUpsert ==
    Ended("save") =>
        /\ outcome.kind = "value" /\ outcome.value = call.item
        /\ find_by_id(cache, call.item.osm_id) = call.item
        /\ Size(cache) = IF call.item.osm_id \in DOMAIN cache0
                         THEN Size(cache0) ELSE Size(cache0) + 1
        /\ \A k \in (DOMAIN cache \cup DOMAIN cache0) \ {call.item.osm_id} :
               /\ k \in DOMAIN cache /\ k \in DOMAIN cache0
               /\ cache[k] = cache0[k]

\* C11 witness: a save over an entry of the same id with another content,
\* while another id is cached
C11_Witness ==
    /\ Ended("save")
    /\ call.item.osm_id \in DOMAIN cache0
    /\ cache0[call.item.osm_id] # call.item
    /\ Size(cache0) = 2
    /\ cache[call.item.osm_id] = call.item

\* C12: delete(id) returns true exactly when id was cached just before;
\* afterwards id is absent; on an absent id it returns false, raises nothing
\* and leaves the cache as it was; the other ids keep their entries.
C12_DeleteReportsPresence ==
    Ended("delete") =>
        /\ outcome.kind = "value"
        /\ outcome.value = (call.item_id \in DOMAIN cache0)
        /\ call.item_id \notin DOMAIN cache
        /\ find_by_id(cache, call.item_id) = None
        /\ call.item_id \notin DOMAIN cache0 => cache = cache0
        /\ \A k \in (DOMAIN cache \cup DOMAIN cache0) \ {call.item_id} :
               /\ k \in DOMAIN cache /\ k \in DOMAIN cache0
               /\ cache[k] = cache0[k]

\* C12 witness: a delete of an absent id on a cache that holds another id
C12_Witness ==
    /\ Ended("delete")
    /\ call.item_id \notin DOMAIN cache0
    /\ Size(cache0) = 1
    /\ outcome.value = FALSE

\* C13: find_all raises NotImplementedError in every cache state; it returns
\* no data and leaves the cache as it was.
C13_FindAllUnsupported ==
    Ended("find_all") =>
        /\ outcome.kind = "raise"
        /\ outcome.exc.cls = "NotImplementedError"
        /\ outcome.polygons = <<>>
        /\ outcome.data = NoPayload
        /\ cache = cache0

\* C13 witness: find_all called on a cache with two entries
C13_Witness ==
    /\ Ended("find_all")
    /\ Size(cache0) = 2
    /\ outcome.kind = "raise"

\* C14 as stated: is_available issues exactly one fetch, with timeout 5
\* whatever the configured timeout, max_retries and retry_delay are; it never
\* sleeps, never retries and never raises, also when the probe fails.
C14_AsStated ==
    call.op = "is_available" =>
        /\ NFetch <= 1
        /\ NSleep = 0
        /\ attempt = 0
        /\ outcome.kind # "raise"
        /\ \A i \in Positions("fetch") :
               /\ log[i].req.timeout = 5
               /\ log[i].req.url = config.url
               /\ log[i].req.data = "[bbox:0,0,0.1,0.1];node;out count;"
        /\ pc = "idle" =>
               /\ NFetch = 1
               /\ inflight = 0
               /\ outcome.kind = "value" /\ outcome.value \in BOOLEAN

\* The probe ended with a transport failure: requests.get raised a
\* RequestException
ProbeFailed == IsRequestException(last_exc.cls)

\* The probe completed: requests.get returned a response
ProbeCompleted == last_exc.cls = "none"

\* C15 as stated: is_available returns false when the probe ends with a
\* transport failure or a non-success status, and true for every probe that
\* completes with a success status (200..299).
C15_AsStated ==
    (Ended("is_available") /\ (ProbeFailed \/ ProbeCompleted)) =>
        /\ outcome.kind = "value"
        /\ outcome.value = (ProbeCompleted /\ 200 <= response.status_code
                                           /\ response.status_code <= 299)

\* C15, amended: is_available returns true exactly when the probe completes
\* with status 200; it returns false on a transport failure and on every
\* other status, the success statuses other than 200 included.
C15_TrueOnlyFor200 ==
    Ended("is_available") =>
        /\ (ProbeFailed \/ ProbeCompleted) =>
              /\ outcome.kind = "value"
              /\ outcome.value = (ProbeCompleted /\ response.status_code = 200)
        /\ (outcome.kind = "value" /\ outcome.value) =>
              (ProbeCompleted /\ response.status_code = 200)

\* C15 witness: the probe completed with the success status 204 and
\* is_available returned false
C15_Witness ==
    /\ Ended("is_available")
    /\ ProbeCompleted /\ response.status_code = 204
    /\ outcome.kind = "value" /\ outcome.value = FALSE

\* The operations that go through client.query
QueryOps == {"query", "find_ways", "find_by_tags", "find_relations"}

\* The latest attempt of the call got a response and the response is over
Responded == call.op \in QueryOps /\ pc # "fetching" /\ response.status_code # 0

\* The latest attempt got a response that passed raise_for_status and whose
\* body did not decode
DecodeFailed ==
    /\ Responded
    /\ ~(400 <= response.status_code /\ response.status_code <= 599)
    /\ ~response.decodable

\* The last event of the log is the failure of attempt n
FailureIsLast(n) ==
    /\ log # <<>>
    /\ log[Len(log)].ev = "fail" /\ log[Len(log)].n = n /\ log[Len(log)].transport

\* The log ends with the failure of attempt n and the sleep of d after it
FailureThenSleep(n, d) ==
    /\ Len(log) >= 2
    /\ log[Len(log) - 1].ev = "fail" /\ log[Len(log) - 1].n = n
    /\ log[Len(log) - 1].transport
    /\ log[Len(log)].ev = "sleep" /\ log[Len(log)].n = n /\ log[Len(log)].d = d

\* C16: an attempt whose response body cannot be decoded is a failed attempt
\* of the retry loop: at attempt n < max_retries - 1 the call sleeps
\* retry_delay * 2^n and goes on to attempt n + 1; at the final attempt the
\* decode failure is what query raises; a decode failure never ends the call
\* before max_retries fetches were made.
C16_DecodeFailureIsRetried ==
    DecodeFailed =>
        LET n == last_exc.at IN
        /\ last_exc.cls = "JSONDecodeError"
        /\ n = NFetch - 1
        /\ IF n < config.max_retries - 1
           THEN /\ pc \in {"sleeping", "attempting"}
                /\ qresult.kind = "none"
                /\ FailureThenSleep(n, config.retry_delay * (2 ^ n))
                /\ attempt = IF pc = "sleeping" THEN n ELSE n + 1
           ELSE /\ pc = "idle"
                /\ FailureIsLast(n)
                /\ qresult.kind = "raise"
                /\ qresult.exc.cls = "JSONDecodeError" /\ qresult.exc.at = n
                /\ NFetch = config.max_retries

\* C16 witness: the second attempt of a call with max_retries = 3 got a
\* success status with a body that does not decode, and the call sleeps
C16_Witness ==
    /\ DecodeFailed
    /\ response.status_code = 200
    /\ config.max_retries = 3 /\ config.retry_delay = 3
    /\ pc = "sleeping" /\ attempt = 1
    /\ log[Len(log)].d = 6

\* C17 as stated: an attempt that completes with a status outside 200..299
\* is a failed attempt, retried like a transport error, and query never
\* returns a payload taken from a response with such a status.
C17_AsStated ==
    (Responded /\ ~(200 <= response.status_code /\ response.status_code <= 299)) =>
        /\ ~Succeeded
        /\ qresult.kind # "return"
        /\ \E i \in Positions("fail") : log[i].n = NFetch - 1 /\ log[i].transport

\* The polygons the way operation that just ended handed out: those of the
\* sequence it returned and those it stored in the cache
Returned == { outcome.polygons[i] : i \in DOMAIN outcome.polygons }
Inserted ==
    { cache[k] : k \in { j \in DOMAIN cache : j \notin DOMAIN cache0 \/ cache[j] # cache0[j] } }
WayOpEnded == pc = "idle" /\ call.op \in {"find_ways", "find_by_tags"}

\* C18 as stated: for a way element closed by the parser, with one geometry
\* point or more, the first coordinate equals the last one afterwards and
\* another close() leaves the number of coordinates as it is.
C18_AsStated ==
    WayOpEnded =>
        \A p \in Returned \cup Inserted :
            /\ p.coordinates[1] = p.coordinates[Len(p.coordinates)]
            /\ Len(close(p.coordinates)) = Len(p.coordinates)

\* C19 as stated: every polygon find_ways returns or stores in the cache is
\* valid: is_valid() holds, that is it has at least 3 coordinates and its
\* first coordinate equals its last.
C19_AsStated ==
    WayOpEnded =>
        \A p \in Returned \cup Inserted :
            /\ Polygon_is_valid(p.coordinates)
            /\ Len(p.coordinates) >= 3
            /\ p.coordinates[1] = p.coordinates[Len(p.coordinates)]

\* What find_ways(bbox, tags) does from cache c when the one client.query
\* call it makes ends with qres: its outcome and the cache it leaves
FindWaysGives(bbox, qres, c) ==
    IF IllFormed(bbox)
    THEN [outcome |-> Raise(InvalidBBox), cache |-> c]
    ELSE _query_and_parse(qres, WAY, c)

\* C20: find_by_tags(bbox, tags) is find_ways(bbox, tags) under another
\* name.  From the same cache and with the same behaviour of the remote,
\* each of the two makes the one client.query call with the way query built
\* from bbox and tags (none for an ill-formed bbox), and ends with the
\* outcome and the cache that find_ways gives for that cache, bbox and result
\* of query; so the two return the same sequence or raise the same error and
\* leave the same cache.
C20_FindByTagsIsFindWays ==
    \A op \in {"find_ways", "find_by_tags"} :
        /\ call.op = op =>
               /\ call.query = WayQuery(call.bbox, call.tags)
               /\ \A i \in Positions("fetch") :
                      log[i].req = Request(config.url, WayQuery(call.bbox, call.tags),
                                           config.timeout)
               /\ IllFormed(call.bbox) => log = <<>> /\ pc = "idle"
        /\ Ended(op) =>
               /\ outcome = FindWaysGives(call.bbox, qresult, cache0).outcome
               /\ cache = FindWaysGives(call.bbox, qresult, cache0).cache
               /\ qresult.kind = "none" <=> IllFormed(call.bbox)

\* C20 witness: find_by_tags, called with tags on a cache that holds an
\* entry, returned two polygons after one failed and one successful attempt
\* and changed the cache
C20_Witness ==
    /\ Ended("find_by_tags")
    /\ call.tags.given
    /\ cache0 # <<>> /\ cache # cache0
    /\ Len(outcome.polygons) = 2
    /\ NFetch = 2

\* The ids under which find_by_id finds a polygon
Present(c) == { id \in Ids : find_by_id(c, id) # None }

\* C21: in every state reached by save, delete, clear_cache and find_ways
\* (and the other operations), get_cache_size() is the number of distinct ids
\* for which find_by_id is not absent; right after clear_cache() the size is
\* 0 and find_by_id is absent for every id.
C21_SizeCountsIds ==
    /\ get_cache_size(cache) = Cardinality(Present(cache))
    /\ Ended("get_cache_size") =>
           /\ outcome.kind = "value"
           /\ outcome.value = Cardinality(Present(cache0))
           /\ cache = cache0
    /\ Ended("clear_cache") =>
           /\ outcome.kind = "value"
           /\ get_cache_size(cache) = 0
           /\ \A id \in Ids : find_by_id(cache, id) = None

\* C21 witness: clear_cache has just emptied a cache of two entries
C21_Witness ==
    /\ Ended("clear_cache")
    /\ Cardinality(Present(cache0)) = 2
    /\ Present(cache) = {}

\* C22: an id that is in the cache stays in it through every step that is
\* neither delete(id) nor clear_cache(): no fetch, lookup, save of another
\* polygon, failed operation or retry exhaustion removes an entry, and no
\* size bound forces one out.
C22_NoEviction ==
    [][ \A id \in Ids :
            (find_by_id(cache, id) # None /\ find_by_id(cache', id) = None)
                => \/ call'.op = "delete" /\ call'.item_id = id
                   \/ call'.op = "clear_cache"
      ]_vars

\* C22 witness: a find_ways call ended by retry exhaustion on a cache with
\* two entries, which are still there
C22_Witness ==
    /\ Ended("find_ways")
    /\ qresult.kind = "raise" /\ NFetch = config.max_retries /\ NFetch >= 2
    /\ Cardinality(Present(cache0)) = 2
    /\ cache = cache0

\* ------------------------------------------------------------------ C23
\* find_ways returned a list to its caller, from a cache that was empty
FindWaysReturnedOnEmptyCache ==
    Ended("find_ways") /\ outcome.kind = "return" /\ cache0 = <<>>

\* The osm_ids of a sequence of polygons
IdsOf(polygons) == { polygons[i].osm_id : i \in DOMAIN polygons }

\* C23 as stated: after a find_ways call on a repository whose cache was
\* empty, get_cache_size() equals the length of the returned sequence, for
\* every response.
C23_AsStated ==
    FindWaysReturnedOnEmptyCache =>
        get_cache_size(cache) = Len(outcome.polygons)

\* C23, amended: after a find_ways call on a repository whose cache was
\* empty, get_cache_size() equals the number of distinct osm_ids among the
\* polygons the call parsed from the way elements it went through.  When the
\* batch is processed to its end these are the polygons returned, so the size
\* is the number of distinct osm_ids of the returned sequence: at most its
\* length, and equal to it when no two returned polygons share an id.  When
\* an exception at the top level of the loop ends the batch, the returned
\* sequence is empty and the polygons parsed before it are still counted.
C23_SizeCountsDistinctIds ==
    FindWaysReturnedOnEmptyCache =>
        LET es == IF qresult.kind = "return" THEN ElementsOf(qresult.payload) ELSE <<>>
            parsed == ParsedWays(Processed(es))
        IN  /\ get_cache_size(cache) = Cardinality(IdsOf(parsed))
            /\ get_cache_size(cache) <= Len(parsed)
            /\ IF qresult.kind = "return" /\ TopLevelException(qresult.payload)
               THEN outcome.polygons = <<>>
               ELSE /\ outcome.polygons = parsed
                    /\ get_cache_size(cache) = Cardinality(IdsOf(outcome.polygons))
                    /\ (\A i, j \in DOMAIN outcome.polygons :
                            i # j => outcome.polygons[i].osm_id # outcome.polygons[j].osm_id)
                          => get_cache_size(cache) = Len(outcome.polygons)

\* C23 witness: find_ways on an empty cache returned two polygons with the
\* same id, and the cache holds one entry
C23_Witness ==
    /\ FindWaysReturnedOnEmptyCache
    /\ Len(outcome.polygons) = 2
    /\ outcome.polygons[1].osm_id = outcome.polygons[2].osm_id
    /\ get_cache_size(cache) = 1

\* ------------------------------------------------------------------ C24
\* One coordinate of b is exactly at an end of its range
AtBoundary(b) ==
    \/ b.lat_min \in {-90, 90} \/ b.lat_max \in {-90, 90}
    \/ b.lon_min \in {-180, 180} \/ b.lon_max \in {-180, 180}

\* C24: BoundingBox.is_valid() returns false if and only if at least one of
\* six conditions holds: lat_min >= lat_max, lon_min >= lon_max, lat_min
\* outside [-90,90], lat_max outside [-90,90], lon_min outside [-180,180],
\* lon_max outside [-180,180]; a box with a coordinate exactly at -90, 90,
\* -180 or 180 is valid when none of the six holds.
C24_InvalidIffOneOfSix ==
    Ended("is_valid") =>
        /\ outcome.kind = "value"
        /\ outcome.value \in BOOLEAN
        /\ outcome.value = FALSE <=>
              \/ call.bbox.lat_min >= call.bbox.lat_max
              \/ call.bbox.lon_min >= call.bbox.lon_max
              \/ call.bbox.lat_min < -90 \/ call.bbox.lat_min > 90
              \/ call.bbox.lat_max < -90 \/ call.bbox.lat_max > 90
              \/ call.bbox.lon_min < -180 \/ call.bbox.lon_min > 180
              \/ call.bbox.lon_max < -180 \/ call.bbox.lon_max > 180
        /\ (AtBoundary(call.bbox)
              /\ call.bbox.lat_min < call.bbox.lat_max
              /\ call.bbox.lon_min < call.bbox.lon_max
              /\ call.bbox.lat_min >= -90 /\ call.bbox.lat_max <= 90
              /\ call.bbox.lon_min >= -180 /\ call.bbox.lon_max <= 180)
             => outcome.value = TRUE

\* C24 witness: the box of the whole globe, every coordinate at an end of
\* its range, was found valid
C24_Witness ==
    /\ Ended("is_valid")
    /\ call.bbox = BoundingBox(-90, -180, 90, 180)
    /\ outcome.value = TRUE

\* ------------------------------------------------------------------ C25
\* The int k for which a coordinate is k / 2
HalfUnits(x) == CHOOSE k \in -4..4 : Ratio(k, 2) = x

\* The Shoelace sum of (x_i * y_{i+1} - x_{i+1} * y_i) over the consecutive
\* pairs from index i on, in exact integer arithmetic on half units: the sum
\* in quarters
RECURSIVE ExactShoelace(_, _)
ExactShoelace(cs, i) ==
    IF i > Len(cs) - 1 THEN 0
    ELSE HalfUnits(cs[i][1]) * HalfUnits(cs[i + 1][2])
           - HalfUnits(cs[i + 1][1]) * HalfUnits(cs[i][2])
           + ExactShoelace(cs, i + 1)

Abs(n) == IF n < 0 THEN -n ELSE n

UnitSquare == <<Point(0, 0), Point(2, 0), Point(2, 2), Point(0, 2), Point(0, 0)>>
Triangle == <<Point(0, 0), Point(2, 0), Point(1, 2), Point(0, 0)>>

\* C25: get_area() returns 0 for every polygon that has fewer than 3
\* coordinates or whose first coordinate differs from its last; for every
\* other polygon it returns half the absolute value of the Shoelace sum of
\* (x_i * y_{i+1} - x_{i+1} * y_i) over the consecutive pairs; the unit
\* square gives 1, the triangle (0,0),(1,0),(0.5,1),(0,0) gives 0.5, and the
\* result is never negative.
C25_AreaIsHalfAbsShoelace ==
    Ended("get_area") =>
        LET cs == call.polygon.coordinates
            area == outcome.value
        IN  /\ outcome.kind = "value"
            /\ IF Len(cs) < 3 \/ cs[1] # cs[Len(cs)]
               THEN area = FZero
               ELSE area = Ratio(Abs(ExactShoelace(cs, 1)), 8)
            /\ cs = UnitSquare => area = FFromInt(1)
            /\ cs = Triangle => area = Ratio(1, 2)
            /\ ~area.neg

\* C25 witness: the unit square walked clockwise, whose Shoelace sum is -2,
\* has area 1
C25_Witness ==
    /\ Ended("get_area")
    /\ call.polygon.coordinates
         = <<Point(0, 0), Point(0, 2), Point(2, 2), Point(2, 0), Point(0, 0)>>
    /\ ExactShoelace(call.polygon.coordinates, 1) = -8
    /\ outcome.value = FFromInt(1)

\* ------------------------------------------------------------------ C26
\* The areas of the polygons of a list, in its order
AreasOf(polygons) == [i \in DOMAIN polygons |-> get_area(polygons[i].coordinates)]

\* x is an element of xs below which, and above which, xs has no element
IsLeast(x, xs) ==
    /\ \E i \in DOMAIN xs : xs[i] = x
    /\ \A i \in DOMAIN xs : FLe(x, xs[i])
IsGreatest(x, xs) ==
    /\ \E i \in DOMAIN xs : xs[i] = x
    /\ \A i \in DOMAIN xs : FLe(xs[i], x)

\* The exact sum of the areas xs (none is negative), in units of 2^e
RECURSIVE ExactSumAt(_, _)
ExactSumAt(xs, e) ==
    IF xs = <<>> THEN <<>>
    ELSE BigTrim(BigAddC(BigShl(xs[1].m, xs[1].e - e), ExactSumAt(Tail(xs), e), 0))

\* total is the sum of xs up to the rounding of the additions: it is within
\* Len(xs) - 1 half units in its last place of the exact sum, that is
\* 2 * |total - exact| <= (Len(xs) - 1) * ulp(total) in exact arithmetic
IsRoundedSum(total, xs) ==
    LET ulp == IF total.e + BitLen(total.m) - MantissaBits > MinExponent
               THEN total.e + BitLen(total.m) - MantissaBits
               ELSE MinExponent
        E == { xs[i].e : i \in DOMAIN xs } \cup { ulp, total.e }
        e == CHOOSE v \in E : \A w \in E : v <= w
        exact == ExactSumAt(xs, e)
        t == BigShl(total.m, total.e - e)
        d == IF BigCmp(exact, t) >= 0 THEN BigSub(exact, t) ELSE BigSub(t, exact)
    IN  /\ ~total.neg
        /\ BigCmp(BigTrim(BigMulSmall(d, 2)), BigShl(BigOfInt(Len(xs) - 1), ulp - e)) <= 0

\* What C26 says of every result but the average
StatisticsButAverage ==
    LET st == outcome.value
        areas == AreasOf(call.polygons)
    IN  /\ outcome.kind = "value"
        /\ IF call.polygons = <<>>
           THEN st = [count |-> 0, avg_area |-> FZero, min_area |-> FZero,
                      max_area |-> FZero, total_area |-> FZero]
           ELSE /\ st.count = Len(call.polygons)
                /\ IsRoundedSum(st.total_area, areas)
                /\ IsLeast(st.min_area, areas)
                /\ IsGreatest(st.max_area, areas)

\* C26 as stated: get_statistics gives zeros for an empty input; for a
\* non-empty one count is the number of polygons, total_area the sum of
\* their areas, min_area and max_area the least and greatest area, avg_area *
\* count equals total_area, and min_area <= avg_area <= max_area.
C26_AsStated ==
    Ended("get_statistics") =>
        /\ StatisticsButAverage
        /\ call.polygons # <<>> =>
              /\ FMul(outcome.value.avg_area, FFromInt(outcome.value.count))
                    = outcome.value.total_area
              /\ FLe(outcome.value.min_area, outcome.value.avg_area)
              /\ FLe(outcome.value.avg_area, outcome.value.max_area)

\* avg is within half a unit in its last place of the exact quotient
\* total / n: 2 * |n * avg - total| <= n * ulp(avg), in exact arithmetic; the
\* unit is never less than the smallest positive float
WithinHalfUlp(avg, total, n) ==
    LET ulp == IF avg.m # <<>> /\ avg.e + BitLen(avg.m) - MantissaBits > MinExponent
               THEN avg.e + BitLen(avg.m) - MantissaBits
               ELSE MinExponent
        e == IF ulp < total.e THEN ulp ELSE total.e
        a == BigShl(BigMulSmall(avg.m, n), avg.e - e)
        t == BigShl(total.m, total.e - e)
        d == IF BigCmp(a, t) >= 0 THEN BigSub(a, t) ELSE BigSub(t, a)
    IN  /\ avg.m # <<>> => avg.neg = total.neg
        /\ BigCmp(BigTrim(BigMulSmall(d, 2)), BigShl(BigOfInt(n), ulp - e)) <= 0

\* C26, amended: get_statistics gives zeros for an empty input; for a
\* non-empty one count is the number of polygons, total_area the
\* floating-point sum of their areas as the interpreter's sum() computes it
\* (within count - 1 half units in the last place of the exact sum), min_area
\* and max_area the least and greatest area, and avg_area the floating-point quotient
\* total_area / count: the float nearest to the exact quotient.  avg_area *
\* count equals total_area when count is 1, and when count is 2 unless
\* total_area is an odd multiple of the smallest positive float, whose half
\* is no float; min_area <= avg_area <= max_area holds when count is 1 or 2;
\* min_area <= max_area always.
C26_AverageIsRoundedQuotient ==
    Ended("get_statistics") =>
        /\ StatisticsButAverage
        /\ call.polygons # <<>> =>
              LET st == outcome.value IN
              /\ WithinHalfUlp(st.avg_area, st.total_area, st.count)
              /\ st.count = 1 => st.avg_area = st.total_area
              /\ st.count = 2 =>
                    \/ FMul(st.avg_area, FFromInt(2)) = st.total_area
                    \/ st.total_area.m # <<>> /\ st.total_area.e = MinExponent
              /\ st.count \in {1, 2} =>
                    FLe(st.min_area, st.avg_area) /\ FLe(st.avg_area, st.max_area)
              /\ FLe(st.min_area, st.max_area)

\* C26 witness: three polygons of area 0.1 each, whose average
\* 0.10000000000000002 is above the greatest area
C26_Witness ==
    /\ Ended("get_statistics")
    /\ outcome.value.count = 3
    /\ outcome.value.min_area = Ratio(1, 10)
    /\ outcome.value.max_area = Ratio(1, 10)
    /\ FLt(outcome.value.max_area, outcome.value.avg_area)
    /\ WithinHalfUlp(outcome.value.avg_area, outcome.value.total_area, 3)

\* ------------------------------------------------------------------ C27
\* The elements of xs at the indices of K from i on, in the order of xs
RECURSIVE Pick(_, _, _)
Pick(xs, K, i) ==
    IF i > Len(xs) THEN <<>>
    ELSE (IF i \in K THEN <<xs[i]>> ELSE <<>>) \o Pick(xs, K, i + 1)

\* C27: filter_by_area(polygons, min_area, max_area) returns exactly the
\* polygons p of the input with get_area(p) >= min_area and, when max_area
\* is given, get_area(p) <= max_area, both bounds inclusive, in their input
\* order; the input list and its polygons are as they were.
C27_FilterByAreaInclusive ==
    Ended("filter_by_area") =>
        LET ps == call.polygons
            Kept == { i \in DOMAIN ps :
                        /\ ~FLt(get_area(ps[i].coordinates), call.min_area)
                        /\ call.max_area.given =>
                              ~FLt(call.max_area.value, get_area(ps[i].coordinates)) }
        IN  /\ outcome.kind = "value"
            /\ outcome.value = Pick(ps, Kept, 1)
            /\ outcome.polygons = ps

\* C27 witness: with min_area = max_area = 0.1, of a polygon of area 0.25,
\* one of area 0.1 and one of area 0, the one whose area is exactly 0.1 is
\* returned.
C27_Witness ==
    /\ Ended("filter_by_area")
    /\ call.min_area = Ratio(1, 10) /\ call.max_area = Given(Ratio(1, 10))
    /\ Len(call.polygons) = 3
    /\ get_area(call.polygons[1].coordinates) = Ratio(1, 4)
    /\ get_area(call.polygons[2].coordinates) = Ratio(1, 10)
    /\ get_area(call.polygons[3].coordinates) = FZero
    /\ outcome.value = <<call.polygons[2]>>
    /\ outcome.polygons = call.polygons

\* ------------------------------------------------------------------ C28
\* C28 as stated: filter_by_tag_value(polygons, key, value) returns exactly
\* the polygons of the input whose tags contain key with a value equal to
\* value, in input order; a polygon whose tags do not contain key is
\* excluded for every value passed.
C28_AsStated ==
    Ended("filter_by_tag_value") =>
        LET ps == call.polygons
            Kept == { i \in DOMAIN ps :
                        /\ call.tag_key \in DOMAIN ps[i].tags
                        /\ Str(ps[i].tags[call.tag_key]) = call.tag_value }
        IN  /\ outcome.value = Pick(ps, Kept, 1)
            /\ \A i \in DOMAIN ps :
                  call.tag_key \notin DOMAIN ps[i].tags =>
                      \A j \in DOMAIN outcome.value : outcome.value[j] # ps[i]

\* ------------------------------------------------------------------ C29
\* C29: convert_to_geojson yields one Feature per input polygon, in input
\* order; each has a geometry of type Polygon whose single ring is the
\* polygon's coordinates, and properties that merge {osm_id, type}, then the
\* tags, then the properties of the polygon, the later source overriding the
\* earlier one on a shared key: the properties win over the tags, and both
\* win over the computed osm_id and type.
C29_GeojsonFeatures ==
    Ended("convert_to_geojson") =>
        LET ps == call.polygons
            fs == outcome.value.features
        IN  /\ outcome.value.type = "FeatureCollection"
            /\ DOMAIN outcome.value = {"type", "features"}
            /\ Len(fs) = Len(ps)
            /\ \A i \in DOMAIN ps :
                  /\ DOMAIN fs[i] = {"type", "geometry", "properties"}
                  /\ fs[i].type = "Feature"
                  /\ fs[i].geometry.type = "Polygon"
                  /\ Len(fs[i].geometry.coordinates) = 1
                  /\ fs[i].geometry.coordinates[1] = ps[i].coordinates
                  /\ DOMAIN fs[i].properties
                        = {"osm_id", "type"} \cup DOMAIN ps[i].tags \cup DOMAIN ps[i].properties
                  /\ \A k \in DOMAIN fs[i].properties :
                        IF k \in DOMAIN ps[i].properties
                        THEN fs[i].properties[k] = ps[i].properties[k]
                        ELSE IF k \in DOMAIN ps[i].tags
                        THEN fs[i].properties[k] = ps[i].tags[k]
                        ELSE IF k = "osm_id"
                        THEN fs[i].properties[k] = ps[i].osm_id
                        ELSE fs[i].properties[k]
                                = (CASE ps[i].polygon_type = WAY -> "way"
                                     [] ps[i].polygon_type = RELATION -> "relation"
                                     [] ps[i].polygon_type = NODE -> "node")
            /\ outcome.polygons = ps

\* C29 witness: three polygons converted in their order: one whose property
\* "name" overrides its tag "name", then one whose tag "type" and property
\* "osm_id" override the computed ones, then one with the computed keys kept
C29_Witness ==
    /\ Ended("convert_to_geojson")
    /\ Len(call.polygons) = 3
    /\ call.polygons[1].tags = [building |-> "no", name |-> "a"]
    /\ outcome.value.features[1].properties
          = [osm_id |-> 2, type |-> "way", building |-> "no", name |-> "b", height |-> "3"]
    /\ call.polygons[2].osm_id = 3
    /\ outcome.value.features[2].properties = [osm_id |-> "three", type |-> "multipolygon"]
    /\ outcome.value.features[3].properties = [osm_id |-> 1, type |-> "way", building |-> "yes"]

\* ------------------------------------------------------------------ C30
\* A way element without the "geometry" field, or whose geometry is empty
NoGeometry(e) ==
    e.is_dict /\ e.type = "way" /\ (~e.has_geometry \/ e.geometry = <<>>)

\* C30: an element that carries no geometry field, or whose geometry is an
\* empty sequence, yields no polygon: find_ways returns normally, and
\* returns and caches what it would have with the element absent from the
\* batch; when no other element of the batch has its id, no returned polygon
\* has that id and the cache entry under that id is as it was before.
C30_NoGeometryNoPolygon ==
    (Ended("find_ways") /\ qresult.kind = "return"
       /\ qresult.payload.kind = "elements") =>
        LET es == qresult.payload.elements IN
        \A i \in DOMAIN es :
            NoGeometry(es[i]) =>
                LET r == _query_and_parse(QReturn(Payload("elements", RemoveAt(es, i))),
                                          WAY, cache0)
                IN  /\ outcome.kind = "return"
                    /\ outcome.polygons = r.outcome.polygons
                    /\ cache = r.cache
                    /\ Len(outcome.polygons)
                          <= Cardinality({ j \in DOMAIN es : j # i /\ es[j].type = "way" })
                    /\ (\A j \in DOMAIN es : j # i => es[j].id # es[i].id) =>
                          /\ \A j \in DOMAIN outcome.polygons :
                                outcome.polygons[j].osm_id # es[i].id
                          /\ find_by_id(cache, es[i].id) = find_by_id(cache0, es[i].id)

\* C30 witness: a batch of a way with an empty geometry and a way without
\* geometry, of ids 1 and 2, on a cache that holds a polygon under each:
\* nothing is returned and both entries are as they were
C30_Witness ==
    /\ Ended("find_ways") /\ qresult.kind = "return"
    /\ qresult.payload.kind = "elements" /\ Len(qresult.payload.elements) = 2
    /\ qresult.payload.elements[1].has_geometry
    /\ qresult.payload.elements[1].geometry = <<>>
    /\ qresult.payload.elements[1].type = "way"
    /\ ~qresult.payload.elements[2].has_geometry
    /\ qresult.payload.elements[2].type = "way"
    /\ qresult.payload.elements[1].id # qresult.payload.elements[2].id
    /\ DOMAIN cache0 = {1, 2}
    /\ outcome = Return(NoPayload, <<>>)
    /\ cache = cache0

\* ------------------------------------------------------------------ C33
\* C33 as stated: for every configuration the client can be constructed
\* with, a query call that has ended issued at least one fetch, and the value
\* it returned is the payload decoded by a successful attempt of that call.
C33_AsStated ==
    QueryEnded =>
        /\ NFetch >= 1
        /\ qresult.kind = "return" =>
              \E i \in Positions("ok") : qresult.payload = log[i].payload

\* ------------------------------------------------------------------ C34
\* C34: every attempt of one query call sends the same request: the
\* configured endpoint URL, the query text that was passed to query, and the
\* configured per-attempt timeout.  The fetches of a call differ only in the
\* attempt index.
C34_SameRequestEveryAttempt ==
    call.op \in QueryOps =>
        \A i \in Positions("fetch") :
            /\ log[i].req = Request(config.url, call.query, config.timeout)
            /\ log[i].req.data = (IF call.op = "find_relations"
                                  THEN RelationQuery(call.bbox, call.tags)
                                  ELSE IF call.op = "query"
                                  THEN call.query
                                  ELSE WayQuery(call.bbox, call.tags))
            /\ log[i].req = log[Max(Positions("fetch"))].req

\* The third attempt of a find_by_tags call is in flight, on a client whose
\* timeout is not the default one
C34_Witness ==
    /\ call.op = "find_by_tags" /\ pc = "fetching"
    /\ config.timeout = 10
    /\ NFetch = 3 /\ attempt = 2
    /\ log[1].req = log[Len(log)].req
    /\ log[1].req.timeout = 10

\* ------------------------------------------------------------------ C38
\* C38: only failures of the transport class are retried by query.  An
\* exception of another class raised during attempt n ends the call at once:
\* its failure is the last event of the call, no sleep follows it and no
\* further fetch is issued whatever budget remains, and query raises that very
\* exception (which a direct caller of query and the caller of find_relations
\* receive).  Every sleep of a call follows a failure of the transport class.
C38_OnlyTransportIsRetried ==
    call.op \in QueryOps =>
        /\ (last_exc.cls # "none" /\ last_exc.cls \notin RequestExceptions) =>
              /\ pc = "idle"
              /\ qresult = QRaise(last_exc)
              /\ log[Len(log)].ev = "fail" /\ log[Len(log)].n = last_exc.at
              /\ NFetch = last_exc.at + 1
              /\ NSleep = last_exc.at
              /\ call.op \in {"query", "find_relations"} => outcome = Raise(last_exc)
        /\ pc = "sleeping" => last_exc.cls \in RequestExceptions
        /\ \A i \in Positions("sleep") :
              /\ log[i - 1].ev = "fail" /\ log[i - 1].n = log[i].n
              /\ i < Len(log) => log[i + 1].ev = "fetch"

\* The second of three attempts raised a ValueError after the first had
\* failed with a transport failure: the call ended there with that
\* ValueError, one attempt of budget unused
C38_Witness ==
    /\ call.op = "query" /\ pc = "idle"
    /\ config.max_retries = 3
    /\ last_exc.cls = "ValueError" /\ last_exc.at = 1
    /\ NFetch = 2 /\ NSleep = 1
    /\ outcome = Raise(last_exc)

\* ------------------------------------------------------------------ C39
\* C39: after any sequence of save, delete, clear_cache, find_ways,
\* find_by_tags and find_relations (and of the other operations of the
\* repository and of the client), every cache entry is stored under the key
\* equal to the osm_id of the polygon it holds.
C39_KeyIsOsmId ==
    \A k \in DOMAIN cache : cache[k].osm_id = k

\* A find_ways call that found one entry in the cache has added another: the
\* cache holds two polygons, one under each id
C39_Witness ==
    /\ Ended("find_ways")
    /\ Cardinality(DOMAIN cache0) = 1
    /\ DOMAIN cache = {1, 2}
    /\ cache[1].osm_id = 1 /\ cache[2].osm_id = 2

\* ------------------------------------------------------------------ C40
\* The operations that only read the cache, or do not touch the repository
ReadOnlyOps == {"find_by_id", "get_cache_size", "find_all", "find_relations", "is_available"}

\* C40: find_by_id, get_cache_size, find_all, find_relations and
\* is_available leave the cache unchanged: at every point of such a call, and
\* when it has ended by a return or by a raise, the cache is the one the call
\* started with (the same ids, the same polygon under each id).
C40_ReadOnlyOpsKeepCache ==
    call.op \in ReadOnlyOps =>
        /\ cache = cache0
        /\ DOMAIN cache = DOMAIN cache0
        /\ \A id \in Ids : find_by_id(cache, id) = find_by_id(cache0, id)

\* find_relations has returned, on a cache of two entries, after a response
\* that carried a relation with a geometry
C40_Witness ==
    /\ Ended("find_relations") /\ outcome.kind = "return"
    /\ qresult.kind = "return" /\ qresult.payload.kind = "elements"
    /\ \E i \in DOMAIN qresult.payload.elements :
          /\ qresult.payload.elements[i].type = RELATION
          /\ qresult.payload.elements[i].has_geometry
    /\ DOMAIN cache = {1, 2}

\* ------------------------------------------------------------------ C37
\* The polygons the find_ways call that just ended saved, one after the
\* other, while it went through the batch
SavedDuringCall ==
    LET parsed == ParsedWays(Processed(IF qresult.kind = "return"
                                       THEN ElementsOf(qresult.payload) ELSE <<>>))
    IN  { parsed[i] : i \in DOMAIN parsed }

\* C37 as stated: when find_ways returns, the polygons it inserted into the
\* cache during the call are exactly those of the returned sequence: no
\* entry that the call added or replaced is missing from what it returns,
\* and whenever it returns an empty sequence the cache is as it was before
\* the call.
C37_AsStated ==
    (Ended("find_ways") /\ outcome.kind = "return") =>
        /\ SavedDuringCall = Returned
        /\ Inserted \subseteq Returned
        /\ outcome.polygons = <<>> => cache = cache0

\* ------------------------------------------------------------------ C36
\* The elements of es whose declared type is "way"
WaysOf(es) == SelectSeq(es, LAMBDA e : e.type = WAY)

\* The batch the call went through holds an element that is not a way
\* although it carries a geometry that parses
HasForeignGeometry(es) ==
    \E i \in DOMAIN es :
        es[i].is_dict /\ es[i].type # WAY /\ _parse_element(es[i], WAY).ok

\* C36: find_ways parses only the elements whose declared type is "way".
\* For a batch of objects, what the call returns and the cache it leaves are
\* those of the same batch without its elements of another type or of no type:
\* such an element is neither returned nor inserted, even with a well-formed
\* geometry, and the other elements are handled as if it were not there.
C36_OnlyWaysAreParsed ==
    (pc = "idle" /\ qresult.kind = "return" /\ ~TopLevelException(qresult.payload)) =>
        LET es == qresult.payload.elements
            ways == WaysOf(es)
            parsed == { _parse_element(ways[j], WAY).polygon : j \in DOMAIN ways }
            alone == _query_and_parse(QReturn(Payload("elements", ways)), WAY, cache0)
        IN  /\ outcome = alone.outcome
            /\ cache = alone.cache
            /\ Len(outcome.polygons) <= Len(ways)
            /\ Returned \subseteq parsed
            /\ Inserted \subseteq parsed

\* A batch of a node with a well-formed geometry followed by a way, on a
\* cache of one entry: the way alone is returned and inserted
C36_Witness ==
    /\ pc = "idle" /\ qresult.kind = "return"
    /\ Len(qresult.payload.elements) = 2
    /\ qresult.payload.elements[1].type = NODE
    /\ HasForeignGeometry(qresult.payload.elements)
    /\ qresult.payload.elements[2].type = WAY
    /\ Len(outcome.polygons) = 1 /\ outcome.polygons[1].osm_id = 2
    /\ DOMAIN cache0 = {1} /\ DOMAIN cache = {1, 2}
    /\ cache[1] = cache0[1]

\* ------------------------------------------------------------------ C35
\* The geometry points of an element in their order, each as [lon, lat]
PairsOf(geometry) == [i \in DOMAIN geometry |-> <<geometry[i].lon, geometry[i].lat>>]

\* A sequence of pairs is closed: three pairs or more, the last equal to the
\* first (what Polygon.is_closed tests)
AlreadyClosed(pairs) == Len(pairs) >= 3 /\ pairs[1] = pairs[Len(pairs)]

\* C35: the coordinates of a polygon produced by the parser are the
\* element's geometry points in their order, each mapped to [lon, lat],
\* followed by one copy of the first pair exactly when the requested kind is
\* Way and the sequence is not already closed; for Relation and Node nothing
\* is appended.  The polygon's osm_id, tags and kind are the element's id, its
\* tags (the empty mapping when it has none) and the requested kind.
C35_CoordinatesAreGeometry ==
    (pc = "idle" /\ call.op = "_parse_element" /\ outcome.value.ok) =>
        LET element == call.element
            pairs == PairsOf(element.geometry)
            polygon == outcome.value.polygon
        IN  /\ element.has_geometry /\ pairs # <<>>
            /\ polygon.osm_id = element.id
            /\ polygon.tags = (IF element.has_tags THEN element.tags ELSE EmptyDict)
            /\ polygon.polygon_type = call.polygon_type
            /\ polygon.properties = EmptyDict
            /\ SubSeq(polygon.coordinates, 1, Len(pairs)) = pairs
            /\ IF call.polygon_type = WAY /\ ~AlreadyClosed(pairs)
               THEN polygon.coordinates = Append(pairs, pairs[1])
               ELSE polygon.coordinates = pairs

\* A way of three points, the last two equal, without tags: the polygon has
\* four coordinates, the fourth a copy of the first, and an empty mapping of
\* tags
C35_Witness ==
    /\ pc = "idle" /\ call.op = "_parse_element" /\ outcome.value.ok
    /\ call.polygon_type = WAY
    /\ call.element.geometry = <<NA, NB, NB>>
    /\ ~call.element.has_tags
    /\ outcome.value.polygon.coordinates = << <<20, 10>>, <<21, 11>>, <<21, 11>>, <<20, 10>> >>
    /\ outcome.value.polygon.tags = EmptyDict

\* ------------------------------------------------------------------ C32
\* A call is inside the retry loop of query
InQuery == pc \in {"attempting", "fetching", "sleeping"}

\* C32: provided every fetch and every sleep returns, every query call
\* terminates, in exactly one of two outcomes: a payload is returned or a
\* failure is raised.  It makes at most max_retries attempts and at most
\* max_retries - 1 sleeps (max_retries >= 1, the configurations the retry
\* loop is entered with), and the attempt index only moves from n to n + 1
\* within a call: it never goes back and never restarts.
C32_QueryTerminates ==
    /\ [](call.op \in QueryOps =>
            /\ NFetch <= config.max_retries
            /\ config.max_retries >= 1 =>
                  /\ NSleep <= config.max_retries - 1
                  /\ attempt <= config.max_retries - 1
            /\ attempt = (IF pc = "sleeping" THEN NSleep - 1 ELSE NSleep)
            /\ pc = "idle" /\ qresult.kind # "none" =>
                  /\ qresult.kind \in {"return", "raise"}
                  /\ qresult.kind = "return" <=> qresult.exc = NoExc
                  /\ qresult.kind = "raise" <=> qresult.payload = NoPayload
                  /\ qresult.kind = "raise" => qresult.exc.cls \in ExcClasses)
    /\ [][InQuery => (attempt' = attempt \/ (pc = "sleeping" /\ attempt' = attempt + 1))]_vars
    /\ [](InQuery => <>(pc = "idle" /\ qresult.kind \in {"return", "raise"}))

\* A call with three attempts allowed ended by raising after three attempts
\* and two sleeps
C32_Witness ==
    /\ call.op = "query" /\ QueryEnded
    /\ config.max_retries = 3
    /\ NFetch = 3 /\ NSleep = 2 /\ attempt = 2
    /\ qresult.kind = "raise"


\* The reference find_by_id(item_id) gives for the cache c
Found(c, item_id) == find_by_id(c, item_id)

\* C31: a polygon object is shared, not copied, between the cache and its
\* callers.  save stores and returns the very object it is passed and creates
\* none; each object find_ways returns is the one the cache holds under its id
\* (unless a later object of the same list took that id); find_by_id returns
\* the object the cache holds; and when a caller changes the coordinates, tags
\* or properties of an object the cache holds, without any save, the cache is
\* untouched and the polygon a later find_by_id gives is the changed one.
C31_PolygonsAreShared ==
    /\ [](\A k \in DOMAIN cache :
            /\ cache[k].at \in DOMAIN heap
            /\ heap[cache[k].at].osm_id = k)
    /\ [][/\ call'.op = "save" =>
                /\ heap' = heap
                /\ outcome'.value.at = call'.item
                /\ Found(cache', heap[call'.item].osm_id) # None
                /\ Found(cache', heap[call'.item].osm_id).at = call'.item
          /\ call'.op = "find_ways" =>
                \A i \in DOMAIN outcome'.polygons :
                   LET item == outcome'.polygons[i]
                   IN  /\ item.at \in (DOMAIN heap') \ (DOMAIN heap)
                       /\ Found(cache', item.osm_id) # None
                       /\ \/ Found(cache', item.osm_id).at = item.at
                          \/ \E j \in DOMAIN outcome'.polygons :
                                /\ j > i
                                /\ outcome'.polygons[j].osm_id = item.osm_id
          /\ call'.op = "find_by_id" =>
                /\ heap' = heap /\ cache' = cache
                /\ outcome'.value = Found(cache, call'.item_id)
                /\ outcome'.value # None => outcome'.value = cache[call'.item_id]
          /\ call'.op = "mutate" =>
                /\ cache' = cache
                /\ \A a \in DOMAIN heap : a # call'.item => heap'[a] = heap[a]
                /\ \A id \in Ids :
                      (Found(cache, id) # None /\ Found(cache, id).at = call'.item) =>
                         LET seen == heap'[Found(cache', id).at]
                         IN  /\ Found(cache', id).at = call'.item
                             /\ call'.attr = "coordinates" => seen.coordinates = <<>>
                             /\ call'.attr = "tags" => seen.tags.name = "x"
                             /\ call'.attr = "properties" => seen.properties.height = "3"
                             /\ (call'.attr = "close" /\ outcome'.kind # "raise") =>
                                   seen.coordinates = close(heap[call'.item].coordinates)
                             /\ (call'.attr = "pair" /\ outcome'.kind # "raise") =>
                                   /\ seen.coordinates[1][1] = 5
                                   /\ Len(seen.coordinates) = Len(heap[call'.item].coordinates)
                             /\ outcome'.kind = "raise" => seen = heap[call'.item]]_vars

\* A caller has just cleared the coordinates of a polygon that the cache held
\* under id 1 and that had three pairs when it was built; find_by_id(1) gives
\* that object, now without coordinates, while the other object is in the
\* cache as well
C31_Witness ==
    /\ call.op = "mutate" /\ call.attr = "coordinates"
    /\ Found(cache, 1) # None /\ Found(cache, 1).at = call.item
    /\ heap[Found(cache, 1).at].coordinates = <<>>
    /\ heap[Found(cache, 1).at].tags = SomeTags
    /\ Found(cache, 2) # None

====
